---- MODULE Spec2Model ----
(***************************************************************************)
(* Model of the chatbot dialogue service of src/app.py: the Flask routes   *)
(* create_session and send_message, DialogueEngine.process_message, the    *)
(* Neo4jSessionManager store operations, the keyword intent classifier and *)
(* the context-aware response generator.                                   *)
(*                                                                         *)
(* Text is a sequence of one-character strings, so that strip, whitespace  *)
(* collapsing, substring search and the regular expressions of the source  *)
(* are computed as the source computes them.  Python's None is the string  *)
(* NULL for string-valued fields and the empty sequence for optional       *)
(* records (session metadata, the HTTP response of a request in flight).   *)
(***************************************************************************)
EXTENDS Integers, Sequences, FiniteSets, TLC

\* -------------------------------------------------------------------------
\* Bounds of the model
\* -------------------------------------------------------------------------

\* Request-handler threads of the server that may run at the same time.
NumWorkers == 2

\* Requests accepted over a run.
MaxRequests == 2

\* Store calls that fail (driver exceptions) over a run.
MaxFailures == 1

\* Sessions the store allocates over a run.
MaxSessions == 2

\* -------------------------------------------------------------------------
\* Program constants (class Config)
\* -------------------------------------------------------------------------

MAX_MESSAGE_LENGTH == 1000

MIN_MESSAGE_LENGTH == 1

CONTEXT_WINDOW_SIZE == 6

NULL == "null"

\* -------------------------------------------------------------------------
\* Text
\* -------------------------------------------------------------------------

\* A character is a one-character string of a code point up to U+00FF.
\* Whitespace is the characters among them that str.strip() removes,
\* str.split() splits at and the regular expression \s matches: U+0009 to
\* U+000D, U+001C to U+001F, the space, U+0085 and U+00A0.  (The Unicode
\* spaces above U+00FF, which Python treats the same way, are not characters
\* of the model.)
Whitespace ==
    {"\t", "\n", "", "\f", "\r", "", "", "", "", " ", "", " "}

Digits == {"0", "1", "2", "3", "4", "5", "6", "7", "8", "9"}

\* The characters str.lower() changes: A to Z and U+00C0 to U+00DE without
\* the multiplication sign U+00D7
UpperLetters ==
    <<"A", "B", "C", "D", "E", "F", "G", "H", "I", "J", "K", "L", "M", "N",
      "O", "P", "Q", "R", "S", "T", "U", "V", "W", "X", "Y", "Z", "À", "Á",
      "Â", "Ã", "Ä", "Å", "Æ", "Ç", "È", "É", "Ê", "Ë", "Ì", "Í", "Î", "Ï",
      "Ð", "Ñ", "Ò", "Ó", "Ô", "Õ", "Ö", "Ø", "Ù", "Ú", "Û", "Ü", "Ý", "Þ">>

\* What str.lower() changes them to, in the same order
LowerLetters ==
    <<"a", "b", "c", "d", "e", "f", "g", "h", "i", "j", "k", "l", "m", "n",
      "o", "p", "q", "r", "s", "t", "u", "v", "w", "x", "y", "z", "à", "á",
      "â", "ã", "ä", "å", "æ", "ç", "è", "é", "ê", "ë", "ì", "í", "î", "ï",
      "ð", "ñ", "ò", "ó", "ô", "õ", "ö", "ø", "ù", "ú", "û", "ü", "ý", "þ">>

UpperToLower ==
    [c \in {UpperLetters[i] : i \in 1..Len(UpperLetters)} |->
        LowerLetters[CHOOSE i \in 1..Len(UpperLetters) : UpperLetters[i] = c]]

\* str.lower()
Lower(text) ==
    [i \in 1..Len(text) |->
        IF text[i] \in DOMAIN UpperToLower THEN UpperToLower[text[i]] ELSE text[i]]

\* str.strip(): drop leading and trailing whitespace.
Strip(text) ==
    LET n == Len(text)
    IN  IF \A i \in 1..n : text[i] \in Whitespace THEN <<>>
        ELSE LET first == CHOOSE i \in 1..n :
                              /\ text[i] \notin Whitespace
                              /\ \A j \in 1..(i - 1) : text[j] \in Whitespace
                 last  == CHOOSE i \in 1..n :
                              /\ text[n + 1 - i] \notin Whitespace
                              /\ \A j \in 1..(i - 1) : text[n + 1 - j] \in Whitespace
             IN  SubSeq(text, first, n + 1 - last)

\* re.sub(r'\s+', ' ', text): every maximal run of whitespace becomes one
\* space.  The text is collapsed by halves; a run that goes across the middle
\* has left a space on both sides, of which one is kept.
RECURSIVE CollapseWhitespace(_)
CollapseWhitespace(text) ==
    LET n == Len(text)
        h == n \div 2
    IN  IF n = 0 THEN <<>>
        ELSE IF n = 1 THEN (IF text[1] \in Whitespace THEN <<" ">> ELSE text)
        ELSE LET left == CollapseWhitespace(SubSeq(text, 1, h))
                 right == CollapseWhitespace(SubSeq(text, h + 1, n))
             IN  IF text[h] \in Whitespace /\ text[h + 1] \in Whitespace
                 THEN left \o Tail(right)
                 ELSE left \o right

\* needle in text (Python substring test)
Contains(text, needle) ==
    \E i \in 0..(Len(text) - Len(needle)) : SubSeq(text, i + 1, i + Len(needle)) = needle

\* len(text.split()): whitespace-delimited tokens
TokenCount(text) ==
    Cardinality({i \in 1..Len(text) :
                    /\ text[i] \notin Whitespace
                    /\ (i = 1 \/ text[i - 1] \in Whitespace)})

\* str.replace(old, new): every non-overlapping occurrence, left to right,
\* one occurrence at a time.  With an empty old, new is put before every
\* character and at the end.
RECURSIVE Replace(_, _, _)
Replace(text, old, new) ==
    IF Len(old) = 0
    THEN [k \in 1..((Len(text) + 1) * Len(new) + Len(text)) |->
             IF (k - 1) % (Len(new) + 1) < Len(new)
             THEN new[((k - 1) % (Len(new) + 1)) + 1]
             ELSE text[((k - 1) \div (Len(new) + 1)) + 1]]
    ELSE LET found == {i \in 1..(Len(text) - Len(old) + 1) :
                          SubSeq(text, i, i + Len(old) - 1) = old}
         IN  IF found = {} THEN text
             ELSE LET i == CHOOSE x \in found : \A y \in found : x <= y
                  IN  SubSeq(text, 1, i - 1) \o new \o
                      Replace(SubSeq(text, i + Len(old), Len(text)), old, new)

\* -------------------------------------------------------------------------
\* MessageValidator
\* -------------------------------------------------------------------------

\* The alternatives of re.search(r'<script|javascript:|onerror=', text, re.IGNORECASE)
InjectionPatterns ==
    { <<"<","s","c","r","i","p","t">>,
      <<"j","a","v","a","s","c","r","i","p","t",":">>,
      <<"o","n","e","r","r","o","r","=">> }

\* validate_message with the length check before the emptiness check
validate_message_length_first(text) ==
    IF Len(text) > MAX_MESSAGE_LENGTH
    THEN [is_valid |-> FALSE, error_msg |-> "Message exceeds 1000 characters"]
    ELSE IF Len(text) = 0 \/ Len(Strip(text)) = 0
    THEN [is_valid |-> FALSE, error_msg |-> "Message cannot be empty"]
    ELSE IF Len(text) < MIN_MESSAGE_LENGTH
    THEN [is_valid |-> FALSE, error_msg |-> "Message too short"]
    ELSE IF \E p \in InjectionPatterns : Contains(Lower(text), p)
    THEN [is_valid |-> FALSE, error_msg |-> "Invalid message format"]
    ELSE [is_valid |-> TRUE, error_msg |-> ""]

\* MessageValidator.validate_message: (is_valid, error_msg)
validate_message(text) ==
    IF Len(text) = 0 \/ Len(Strip(text)) = 0
    THEN [is_valid |-> FALSE, error_msg |-> "Message cannot be empty"]
    ELSE IF Len(text) > MAX_MESSAGE_LENGTH
    THEN [is_valid |-> FALSE, error_msg |-> "Message exceeds 1000 characters"]
    ELSE IF Len(text) < MIN_MESSAGE_LENGTH
    THEN [is_valid |-> FALSE, error_msg |-> "Message too short"]
    ELSE IF \E p \in InjectionPatterns : Contains(Lower(text), p)
    THEN [is_valid |-> FALSE, error_msg |-> "Invalid message format"]
    ELSE [is_valid |-> TRUE, error_msg |-> ""]

\* re.sub(r'\s\s', ' ', text): every pair of whitespace characters, left to
\* right, becomes one space.  The text is cut at the character nearest its
\* middle that is not whitespace.
RECURSIVE CollapsePairs(_)
CollapsePairs(text) ==
    LET n == Len(text)
        solid == {i \in 1..n : text[i] \notin Whitespace}
        far(i) == IF 2 * i < n THEN n - 2 * i ELSE 2 * i - n
    IN  IF n <= 1 THEN text
        ELSE IF solid = {}
        THEN SubSeq([i \in 1..n |-> " "], 1, n \div 2)
                 \o (IF n % 2 = 1 THEN <<text[n]>> ELSE <<>>)
        ELSE LET cut == CHOOSE i \in solid : \A j \in solid : far(i) <= far(j)
             IN  CollapsePairs(SubSeq(text, 1, cut - 1)) \o <<text[cut]>>
                     \o CollapsePairs(SubSeq(text, cut + 1, n))

\* sanitize_message with r'\s\s' in place of r'\s+'
sanitize_message_pairwise(text) == CollapsePairs(Strip(text))

\* sanitize_message without re.sub(r'\s+', ' ', text)
sanitize_message_strip_only(text) == Strip(text)

\* MessageValidator.sanitize_message
sanitize_message(text) == CollapseWhitespace(Strip(text))

\* -------------------------------------------------------------------------
\* RasaIntentClassifier
\* -------------------------------------------------------------------------

\* Keyword lists of _fallback_classify, in declaration order (app.py:328-334).
intent_keywords ==
  <<
    [intent |-> "order_status", keywords |-> <<
        <<"o","r","d","e","r">>,
        <<"s","t","a","t","u","s">>,
        <<"t","r","a","c","k">>,
        <<"w","h","e","r","e">>,
        <<"d","e","l","i","v","e","r">>,
        <<"s","h","i","p","p","e","d">> >>],
    [intent |-> "product_info", keywords |-> <<
        <<"p","r","o","d","u","c","t">>,
        <<"p","r","i","c","e">>,
        <<"s","p","e","c","s">>,
        <<"a","v","a","i","l","a","b","l","e">>,
        <<"f","e","a","t","u","r","e">>,
        <<"c","o","s","t">> >>],
    [intent |-> "return_refund", keywords |-> <<
        <<"r","e","t","u","r","n">>,
        <<"r","e","f","u","n","d">>,
        <<"e","x","c","h","a","n","g","e">>,
        <<"b","a","c","k">>,
        <<"m","o","n","e","y">> >>],
    [intent |-> "troubleshooting", keywords |-> <<
        <<"b","r","o","k","e","n">>,
        <<"n","o","t"," ","w","o","r","k">>,
        <<"i","s","s","u","e">>,
        <<"p","r","o","b","l","e","m">>,
        <<"e","r","r","o","r">>,
        <<"h","e","l","p">> >>],
    [intent |-> "shipping", keywords |-> <<
        <<"s","h","i","p","p","i","n","g">>,
        <<"d","e","l","i","v","e","r","y">>,
        <<"a","d","d","r","e","s","s">>,
        <<"d","e","s","t","i","n","a","t","i","o","n">>,
        <<"t","r","a","n","s","p","o","r","t">> >>]
  >>

\* Reply templates of ContextAwareResponseGenerator.__init__ (app.py:386-457).
intent_responses ==
  [
    order_status |-> [
       first_ask |-> <<
          <<"I","'","d"," ","b","e"," ","h","a","p","p","y"," ","t","o"," ","h","e","l","p"," ","y","o","u"," ","t","r","a","c","k"," ","y","o","u","r"," ","o","r","d","e","r","!"," ","C","o","u","l","d"," ","y","o","u"," ","p","l","e","a","s","e"," ","p","r","o","v","i","d","e"," ","y","o","u","r"," ","o","r","d","e","r"," ","n","u","m","b","e","r","?">>,
          <<"L","e","t"," ","m","e"," ","h","e","l","p"," ","y","o","u"," ","c","h","e","c","k"," ","t","h","e"," ","s","t","a","t","u","s"," ","o","f"," ","y","o","u","r"," ","o","r","d","e","r","."," ","W","h","a","t","'","s"," ","y","o","u","r"," ","o","r","d","e","r"," ","n","u","m","b","e","r","?">> >>,
       followup |-> <<
          <<"T","h","a","n","k"," ","y","o","u","!"," ","I"," ","f","o","u","n","d"," ","y","o","u","r"," ","o","r","d","e","r","."," ","I","t","'","s"," ","c","u","r","r","e","n","t","l","y"," ","i","n"," ","t","r","a","n","s","i","t"," ","a","n","d"," ","s","h","o","u","l","d"," ","a","r","r","i","v","e"," ","w","i","t","h","i","n"," ","3","-","5"," ","b","u","s","i","n","e","s","s"," ","d","a","y","s",".">>,
          <<"G","o","t"," ","i","t","!"," ","Y","o","u","r"," ","o","r","d","e","r"," ","h","a","s"," ","b","e","e","n"," ","s","h","i","p","p","e","d"," ","a","n","d"," ","i","s"," ","o","n"," ","i","t","s"," ","w","a","y"," ","t","o"," ","y","o","u","."," ","Y","o","u"," ","s","h","o","u","l","d"," ","r","e","c","e","i","v","e"," ","i","t"," ","s","o","o","n",".">>,
          <<"Y","o","u","r"," ","o","r","d","e","r"," ","i","s"," ","b","e","i","n","g"," ","p","r","e","p","a","r","e","d"," ","f","o","r"," ","s","h","i","p","m","e","n","t","."," ","W","e","'","l","l"," ","s","e","n","d"," ","y","o","u"," ","a"," ","t","r","a","c","k","i","n","g"," ","n","u","m","b","e","r"," ","a","s"," ","s","o","o","n"," ","a","s"," ","i","t"," ","s","h","i","p","s","!">> >>,
       with_order_number |-> <<
          <<"O","r","d","e","r"," ","{","o","r","d","e","r","}"," ","i","s"," ","c","u","r","r","e","n","t","l","y"," ","i","n"," ","t","r","a","n","s","i","t","."," ","E","x","p","e","c","t","e","d"," ","d","e","l","i","v","e","r","y"," ","i","s"," ","w","i","t","h","i","n"," ","3","-","5"," ","b","u","s","i","n","e","s","s"," ","d","a","y","s",".">>,
          <<"I"," ","f","o","u","n","d"," ","o","r","d","e","r"," ","{","o","r","d","e","r","}","."," ","I","t","'","s"," ","b","e","e","n"," ","s","h","i","p","p","e","d"," ","a","n","d"," ","y","o","u"," ","s","h","o","u","l","d"," ","s","e","e"," ","i","t"," ","a","r","r","i","v","e"," ","s","o","o","n",".">> >> ],
    product_info |-> [
       first_ask |-> <<
          <<"I","'","d"," ","b","e"," ","h","a","p","p","y"," ","t","o"," ","h","e","l","p","!"," ","W","h","i","c","h"," ","p","r","o","d","u","c","t"," ","w","o","u","l","d"," ","y","o","u"," ","l","i","k","e"," ","t","o"," ","l","e","a","r","n"," ","m","o","r","e"," ","a","b","o","u","t","?">>,
          <<"W","h","a","t"," ","p","r","o","d","u","c","t"," ","i","n","t","e","r","e","s","t","s"," ","y","o","u","?"," ","I"," ","c","a","n"," ","g","i","v","e"," ","y","o","u"," ","a","l","l"," ","t","h","e"," ","d","e","t","a","i","l","s",".">> >>,
       followup |-> <<
          <<"T","h","a","t","'","s"," ","a"," ","p","o","p","u","l","a","r"," ","c","h","o","i","c","e","!"," ","W","e"," ","h","a","v","e"," ","g","r","e","a","t"," ","r","e","v","i","e","w","s"," ","o","n"," ","t","h","a","t"," ","p","r","o","d","u","c","t","."," ","W","o","u","l","d"," ","y","o","u"," ","l","i","k","e"," ","t","o"," ","k","n","o","w"," ","m","o","r","e"," ","a","b","o","u","t"," ","p","r","i","c","i","n","g"," ","o","r"," ","a","v","a","i","l","a","b","i","l","i","t","y","?">>,
          <<"T","h","a","t"," ","p","r","o","d","u","c","t"," ","i","s"," ","i","n"," ","s","t","o","c","k"," ","a","n","d"," ","r","e","a","d","y"," ","t","o"," ","s","h","i","p","!"," ","I","s"," ","t","h","e","r","e"," ","a","n","y","t","h","i","n","g"," ","s","p","e","c","i","f","i","c"," ","y","o","u","'","d"," ","l","i","k","e"," ","t","o"," ","k","n","o","w"," ","a","b","o","u","t"," ","i","t","?">>,
          <<"W","e"," ","h","a","v","e"," ","s","e","v","e","r","a","l"," ","o","p","t","i","o","n","s"," ","a","v","a","i","l","a","b","l","e","."," ","W","o","u","l","d"," ","y","o","u"," ","l","i","k","e"," ","p","r","i","c","i","n","g"," ","i","n","f","o","r","m","a","t","i","o","n"," ","o","r"," ","d","e","t","a","i","l","s"," ","a","b","o","u","t"," ","f","e","a","t","u","r","e","s","?">> >> ],
    return_refund |-> [
       first_ask |-> <<
          <<"I","'","m"," ","s","o","r","r","y"," ","y","o","u","'","d"," ","l","i","k","e"," ","t","o"," ","r","e","t","u","r","n"," ","s","o","m","e","t","h","i","n","g","."," ","I"," ","c","a","n"," ","d","e","f","i","n","i","t","e","l","y"," ","h","e","l","p"," ","w","i","t","h"," ","t","h","a","t","."," ","W","h","a","t","'","s"," ","y","o","u","r"," ","o","r","d","e","r"," ","n","u","m","b","e","r","?">>,
          <<"I"," ","c","a","n"," ","h","e","l","p"," ","p","r","o","c","e","s","s"," ","a"," ","r","e","t","u","r","n"," ","f","o","r"," ","y","o","u","."," ","C","o","u","l","d"," ","y","o","u"," ","p","r","o","v","i","d","e"," ","y","o","u","r"," ","o","r","d","e","r"," ","n","u","m","b","e","r","?">> >>,
       followup |-> <<
          <<"T","h","a","n","k"," ","y","o","u"," ","f","o","r"," ","t","h","a","t"," ","i","n","f","o","r","m","a","t","i","o","n","."," ","Y","o","u","'","r","e"," ","w","i","t","h","i","n"," ","o","u","r"," ","3","0","-","d","a","y"," ","r","e","t","u","r","n"," ","w","i","n","d","o","w",","," ","s","o"," ","I"," ","c","a","n"," ","h","e","l","p"," ","p","r","o","c","e","s","s"," ","t","h","i","s"," ","f","o","r"," ","y","o","u",".">>,
          <<"I"," ","c","a","n"," ","p","r","o","c","e","s","s"," ","t","h","a","t"," ","r","e","t","u","r","n"," ","f","o","r"," ","y","o","u","."," ","H","e","r","e","'","s"," ","w","h","a","t"," ","h","a","p","p","e","n","s"," ","n","e","x","t",":"," ","w","e","'","l","l"," ","s","e","n","d"," ","y","o","u"," ","a"," ","r","e","t","u","r","n"," ","l","a","b","e","l",","," ","y","o","u"," ","p","a","c","k"," ","t","h","e"," ","i","t","e","m"," ","a","n","d"," ","d","r","o","p"," ","i","t"," ","o","f","f"," ","a","t"," ","a","n","y"," ","s","h","i","p","p","i","n","g"," ","l","o","c","a","t","i","o","n",".">>,
          <<"Y","o","u","r"," ","r","e","t","u","r","n"," ","r","e","q","u","e","s","t"," ","i","s"," ","a","p","p","r","o","v","e","d","."," ","Y","o","u","'","l","l"," ","r","e","c","e","i","v","e"," ","a"," ","r","e","t","u","r","n"," ","l","a","b","e","l"," ","v","i","a"," ","e","m","a","i","l","."," ","O","n","c","e"," ","w","e"," ","r","e","c","e","i","v","e"," ","t","h","e"," ","i","t","e","m"," ","b","a","c","k",","," ","y","o","u","r"," ","r","e","f","u","n","d"," ","w","i","l","l"," ","b","e"," ","p","r","o","c","e","s","s","e","d"," ","w","i","t","h","i","n"," ","5","-","7"," ","b","u","s","i","n","e","s","s"," ","d","a","y","s",".">> >> ],
    troubleshooting |-> [
       first_ask |-> <<
          <<"I","'","m"," ","s","o","r","r","y"," ","y","o","u","'","r","e"," ","e","x","p","e","r","i","e","n","c","i","n","g"," ","a","n"," ","i","s","s","u","e","."," ","W","h","a","t"," ","e","x","a","c","t","l","y"," ","i","s"," ","h","a","p","p","e","n","i","n","g","?">>,
          <<"I","'","d"," ","l","i","k","e"," ","t","o"," ","h","e","l","p"," ","f","i","x"," ","t","h","i","s","."," ","C","a","n"," ","y","o","u"," ","d","e","s","c","r","i","b","e"," ","w","h","a","t","'","s"," ","g","o","i","n","g"," ","w","r","o","n","g","?">> >>,
       followup |-> <<
          <<"I"," ","u","n","d","e","r","s","t","a","n","d","."," ","L","e","t","'","s"," ","t","r","o","u","b","l","e","s","h","o","o","t"," ","t","h","i","s"," ","t","o","g","e","t","h","e","r","."," ","F","i","r","s","t",","," ","h","a","v","e"," ","y","o","u"," ","t","r","i","e","d"," ","r","e","f","r","e","s","h","i","n","g"," ","t","h","e"," ","p","a","g","e"," ","o","r"," ","r","e","s","t","a","r","t","i","n","g"," ","y","o","u","r"," ","d","e","v","i","c","e","?">>,
          <<"T","h","a","t"," ","s","o","u","n","d","s"," ","f","r","u","s","t","r","a","t","i","n","g","."," ","A"," ","f","e","w"," ","t","h","i","n","g","s"," ","t","o"," ","t","r","y",":"," ","c","l","e","a","r"," ","y","o","u","r"," ","b","r","o","w","s","e","r"," ","c","a","c","h","e",","," ","t","r","y"," ","a"," ","d","i","f","f","e","r","e","n","t"," ","b","r","o","w","s","e","r",","," ","o","r"," ","c","o","n","t","a","c","t"," ","o","u","r"," ","s","u","p","p","o","r","t"," ","t","e","a","m"," ","f","o","r"," ","p","e","r","s","o","n","a","l","i","z","e","d"," ","h","e","l","p",".">>,
          <<"T","h","i","s"," ","m","i","g","h","t"," ","b","e"," ","a"," ","t","e","c","h","n","i","c","a","l"," ","i","s","s","u","e"," ","o","n"," ","o","u","r"," ","e","n","d","."," ","L","e","t"," ","m","e"," ","e","s","c","a","l","a","t","e"," ","t","h","i","s"," ","t","o"," ","o","u","r"," ","s","u","p","p","o","r","t"," ","t","e","a","m","."," ","Y","o","u","'","l","l"," ","h","e","a","r"," ","b","a","c","k"," ","w","i","t","h","i","n"," ","2","4"," ","h","o","u","r","s"," ","w","i","t","h"," ","a"," ","s","o","l","u","t","i","o","n",".">> >> ],
    shipping |-> [
       first_ask |-> <<
          <<"I"," ","c","a","n"," ","h","e","l","p"," ","w","i","t","h"," ","s","h","i","p","p","i","n","g"," ","q","u","e","s","t","i","o","n","s","!"," ","W","h","a","t"," ","w","o","u","l","d"," ","y","o","u"," ","l","i","k","e"," ","t","o"," ","k","n","o","w","?">>,
          <<"D","o"," ","y","o","u"," ","h","a","v","e"," ","a"," ","q","u","e","s","t","i","o","n"," ","a","b","o","u","t"," ","s","h","i","p","p","i","n","g","?"," ","I","'","m"," ","h","e","r","e"," ","t","o"," ","h","e","l","p",".">> >>,
       followup |-> <<
          <<"W","e"," ","o","f","f","e","r"," ","s","t","a","n","d","a","r","d"," ","s","h","i","p","p","i","n","g"," ","(","5","-","7"," ","d","a","y","s",")"," ","a","n","d"," ","e","x","p","r","e","s","s"," ","s","h","i","p","p","i","n","g"," ","(","2","-","3"," ","d","a","y","s",")","."," ","W","h","i","c","h"," ","o","p","t","i","o","n"," ","w","o","r","k","s"," ","b","e","s","t"," ","f","o","r"," ","y","o","u","?">>,
          <<"W","e"," ","t","y","p","i","c","a","l","l","y"," ","s","h","i","p"," ","w","i","t","h","i","n"," ","1","-","2"," ","b","u","s","i","n","e","s","s"," ","d","a","y","s","."," ","S","t","a","n","d","a","r","d"," ","d","e","l","i","v","e","r","y"," ","i","s"," ","5","-","7"," ","d","a","y","s",","," ","o","r"," ","y","o","u"," ","c","a","n"," ","c","h","o","o","s","e"," ","e","x","p","r","e","s","s"," ","f","o","r"," ","2","-","3"," ","d","a","y","s",".">>,
          <<"W","e"," ","o","f","f","e","r"," ","f","r","e","e"," ","s","h","i","p","p","i","n","g"," ","o","n"," ","o","r","d","e","r","s"," ","o","v","e","r"," ","$","5","0","!"," ","S","t","a","n","d","a","r","d"," ","s","h","i","p","p","i","n","g"," ","i","s"," ","5","-","7"," ","b","u","s","i","n","e","s","s"," ","d","a","y","s","."," ","W","o","u","l","d"," ","y","o","u"," ","l","i","k","e"," ","e","x","p","r","e","s","s"," ","s","h","i","p","p","i","n","g"," ","i","n","s","t","e","a","d","?">> >> ],
    general_inquiry |-> [
       first_ask |-> <<
          <<"H","e","l","l","o","!"," ","H","o","w"," ","c","a","n"," ","I"," ","a","s","s","i","s","t"," ","y","o","u"," ","t","o","d","a","y","?">>,
          <<"W","e","l","c","o","m","e","!"," ","W","h","a","t"," ","c","a","n"," ","I"," ","h","e","l","p"," ","y","o","u"," ","w","i","t","h","?">> >>,
       followup |-> <<
          <<"I"," ","u","n","d","e","r","s","t","a","n","d","."," ","L","e","t"," ","m","e"," ","h","e","l","p"," ","y","o","u"," ","w","i","t","h"," ","t","h","a","t",".">>,
          <<"T","h","a","t","'","s"," ","a"," ","g","r","e","a","t"," ","q","u","e","s","t","i","o","n","."," ","H","e","r","e","'","s"," ","w","h","a","t"," ","I"," ","c","a","n"," ","t","e","l","l"," ","y","o","u",".",".",".">>,
          <<"T","h","a","n","k","s"," ","f","o","r"," ","a","s","k","i","n","g","!"," ","I","s"," ","t","h","e","r","e"," ","a","n","y","t","h","i","n","g"," ","e","l","s","e"," ","I"," ","c","a","n"," ","h","e","l","p"," ","y","o","u"," ","w","i","t","h","?">> >> ]
  ]

\* any(kw in text_lower for kw in keywords)
AnyKeyword(text_lower, keywords) ==
    \E k \in 1..Len(keywords) : Contains(text_lower, keywords[k])

\* _fallback_classify with all(kw in text_lower ...) in place of any(...)
fallback_classify_all_keywords(text) ==
    LET text_lower == Lower(text)
        hits == {n \in 1..Len(intent_keywords) :
                    \A k \in 1..Len(intent_keywords[n].keywords) :
                        Contains(text_lower, intent_keywords[n].keywords[k])}
    IN  IF hits # {}
        THEN LET n == CHOOSE i \in hits : \A j \in hits : i <= j
             IN  [intent |-> intent_keywords[n].intent, confidence |-> 85,
                  entities |-> <<>>, text |-> text, source |-> "keyword_match"]
        ELSE [intent |-> "general_inquiry", confidence |-> 60,
              entities |-> <<>>, text |-> text, source |-> "fallback"]

\* RasaIntentClassifier._fallback_classify: the first intent, in declaration
\* order, one of whose keywords occurs in the lower-cased text; confidence is
\* in hundredths (0.85 is 85).
fallback_classify(text) ==
    LET text_lower == Lower(text)
        hits == {n \in 1..Len(intent_keywords) :
                    AnyKeyword(text_lower, intent_keywords[n].keywords)}
    IN  IF hits # {}
        THEN LET n == CHOOSE i \in hits : \A j \in hits : i <= j
             IN  [intent |-> intent_keywords[n].intent, confidence |-> 85,
                  entities |-> <<>>, text |-> text, source |-> "keyword_match"]
        ELSE [intent |-> "general_inquiry", confidence |-> 60,
              entities |-> <<>>, text |-> text, source |-> "fallback"]

\* RasaIntentClassifier.classify_intent
classify_intent(text) == fallback_classify(text)

\* {e.get('entity', 'unknown'): e.get('value', '') for e in entities} if entities else {}
\* A dict is a function from its keys; a later entry of the same key wins.
EntitiesDict(entities) ==
    LET keyOf(e) == IF "entity" \in DOMAIN e THEN e.entity ELSE "unknown"
        valOf(e) == IF "value" \in DOMAIN e THEN e.value ELSE ""
        keys == {keyOf(entities[i]) : i \in 1..Len(entities)}
    IN  [k \in keys |->
            LET at == {i \in 1..Len(entities) : keyOf(entities[i]) = k}
                last == CHOOSE i \in at : \A j \in at : j <= i
            IN  valOf(entities[last])]

\* -------------------------------------------------------------------------
\* ContextAwareResponseGenerator
\* -------------------------------------------------------------------------

\* The match of re.search(r'#?(\d{4,})', text): group 1 of the leftmost match,
\* the first maximal run of at least four digits; <<>> when there is none.
\* (No character up to U+00FF other than 0 to 9 is matched by \d.)
SearchOrderNumber(text) ==
    LET starts == {i \in 1..(Len(text) - 3) : \A k \in 0..3 : text[i + k] \in Digits}
    IN  IF starts = {} THEN <<>>
        ELSE LET s == CHOOSE i \in starts : \A j \in starts : i <= j
                 ends == {j \in s..Len(text) : \A k \in s..j : text[k] \in Digits}
                 e == CHOOSE i \in ends : \A j \in ends : j <= i
             IN  SubSeq(text, s, e)

\* _extract_order_number that scans the context from the newest message
extract_order_number_newest_first(user_input, context_history) ==
    IF SearchOrderNumber(user_input) # <<>> THEN SearchOrderNumber(user_input)
    ELSE LET found == {i \in 1..Len(context_history) :
                          SearchOrderNumber(context_history[i]) # <<>>}
         IN  IF found = {} THEN <<>>
             ELSE SearchOrderNumber(
                      context_history[CHOOSE i \in found : \A j \in found : j <= i])

\* ContextAwareResponseGenerator._extract_order_number: from the current
\* message, else from the context messages scanned in order; <<>> is None.
extract_order_number(user_input, context_history) ==
    IF SearchOrderNumber(user_input) # <<>> THEN SearchOrderNumber(user_input)
    ELSE LET found == {i \in 1..Len(context_history) :
                          SearchOrderNumber(context_history[i]) # <<>>}
         IN  IF found = {} THEN <<>>
             ELSE SearchOrderNumber(
                      context_history[CHOOSE i \in found : \A j \in found : i <= j])

\* related_intents of _is_followup_question: previous intent -> related current intents
related_intents ==
    [order_status  |-> {"shipping", "return_refund"},
     product_info  |-> {"return_refund"},
     return_refund |-> {"order_status", "shipping"}]

\* _is_followup_question without the return on an empty context_history
is_followup_question_unguarded(context_history, current_intent, session_metadata) ==
    IF /\ session_metadata # <<>>
       /\ session_metadata[1].user_intent # NULL
       /\ \/ session_metadata[1].user_intent = current_intent
          \/ /\ session_metadata[1].user_intent \in DOMAIN related_intents
             /\ current_intent \in related_intents[session_metadata[1].user_intent]
    THEN TRUE
    ELSE Len(context_history) >= 2

\* ContextAwareResponseGenerator._is_followup_question.  session_metadata is
\* <<>> (None) or <<metadata>>.
is_followup_question(context_history, current_intent, session_metadata) ==
    IF Len(context_history) = 0 THEN FALSE
    ELSE IF /\ session_metadata # <<>>
            /\ session_metadata[1].user_intent # NULL
            /\ \/ session_metadata[1].user_intent = current_intent
               \/ /\ session_metadata[1].user_intent \in DOMAIN related_intents
                  /\ current_intent \in related_intents[session_metadata[1].user_intent]
    THEN TRUE
    ELSE Len(context_history) >= 2

\* The set of values a sequence holds (random.choice draws one of them).
Range(seq) == {seq[i] : i \in 1..Len(seq)}

\* generate_response that answers a follow-up from the first_ask bucket
generate_response_first_ask_only(user_input, context_history, intent, session_metadata) ==
    LET the_intent == IF intent = NULL \/ intent = "" THEN "general_inquiry" ELSE intent
        response_pool == IF the_intent \in DOMAIN intent_responses
                         THEN intent_responses[the_intent]
                         ELSE intent_responses["general_inquiry"]
        is_followup == is_followup_question(context_history, the_intent, session_metadata)
        order_number == extract_order_number(user_input, context_history)
    IN  IF is_followup /\ order_number # <<>> /\ "with_order_number" \in DOMAIN response_pool
        THEN {Replace(r, <<"{","o","r","d","e","r","}">>, order_number) :
                  r \in Range(response_pool["with_order_number"])}
        ELSE Range(response_pool["first_ask"])

\* ContextAwareResponseGenerator.generate_response: the replies random.choice
\* can produce.
generate_response(user_input, context_history, intent, session_metadata) ==
    LET the_intent == IF intent = NULL \/ intent = "" THEN "general_inquiry" ELSE intent
        response_pool == IF the_intent \in DOMAIN intent_responses
                         THEN intent_responses[the_intent]
                         ELSE intent_responses["general_inquiry"]
        is_followup == is_followup_question(context_history, the_intent, session_metadata)
        order_number == extract_order_number(user_input, context_history)
    IN  IF is_followup /\ order_number # <<>> /\ "with_order_number" \in DOMAIN response_pool
        THEN {Replace(r, <<"{","o","r","d","e","r","}">>, order_number) :
                  r \in Range(response_pool["with_order_number"])}
        ELSE IF is_followup
        THEN IF "followup" \in DOMAIN response_pool
             THEN Range(response_pool["followup"])
             ELSE Range(response_pool["first_ask"])
        ELSE Range(response_pool["first_ask"])

\* -------------------------------------------------------------------------
\* Neo4jSessionManager: the Cypher queries, as functions of the graph
\* -------------------------------------------------------------------------
\* The graph is sessions (the Session nodes, by session_id, which the
\* uniqueness constraint makes a key) and messages (the Message nodes, each
\* with the session its HAS_MESSAGE relationship comes from).  datetime() is
\* the store's clock, which every committed write advances, so timestamps
\* order the messages by insertion.

\* _create_session_node: CREATE (s:Session {...})
create_session_node(S, session_id, now) ==
    [s \in DOMAIN S \cup {session_id} |->
        IF s = session_id
        THEN [session_id |-> session_id, created_at |-> now, last_interaction |-> now,
              interaction_count |-> 0, user_intent |-> NULL, topic |-> NULL,
              status |-> "active"]
        ELSE S[s]]

\* json.dumps(entities) if entities else None: <<>> is None, <<d>> the document of d
DumpEntities(entities) == IF DOMAIN entities = {} THEN <<>> ELSE <<entities>>

\* json.loads(msg.get('entities', '{}') or '{}')
LoadEntities(stored) == IF stored = <<>> THEN <<>> ELSE stored[1]

\* add_message_node without "s.interaction_count = s.interaction_count + 1"
add_message_node_uncounted(S, M, now, session_id, message_id, sender, text, intent, entities) ==
    IF session_id \notin DOMAIN S
    THEN [sessions |-> S, messages |-> M]
    ELSE [sessions |-> [S EXCEPT ![session_id].last_interaction = now],
          messages |->
              M \cup {[session |-> session_id, message_id |-> message_id,
                       sender |-> sender, text |-> text, intent |-> intent,
                       entities |-> DumpEntities(entities), timestamp |-> now,
                       token_count |-> TokenCount(text)]}]

\* _add_message_node: MATCH (s:Session {session_id}) CREATE (m:Message {...})
\* CREATE (s)-[:HAS_MESSAGE]->(m) SET s.last_interaction, s.interaction_count + 1.
\* Without a matching session the query has no row to act on and writes nothing.
add_message_node(S, M, now, session_id, message_id, sender, text, intent, entities) ==
    IF session_id \notin DOMAIN S
    THEN [sessions |-> S, messages |-> M]
    ELSE [sessions |->
              [S EXCEPT ![session_id].last_interaction = now,
                        ![session_id].interaction_count = @ + 1],
          messages |->
              M \cup {[session |-> session_id, message_id |-> message_id,
                       sender |-> sender, text |-> text, intent |-> intent,
                       entities |-> DumpEntities(entities), timestamp |-> now,
                       token_count |-> TokenCount(text)]}]

\* fetch_recent_messages without list(reversed(messages)): newest first
fetch_recent_messages_newest_first(M, session_id, num_messages) ==
    LET mine == {m \in M : m.session = session_id}
        n == IF Cardinality(mine) < num_messages THEN Cardinality(mine) ELSE num_messages
        row[k \in 1..n] ==
            CHOOSE m \in mine : Cardinality({o \in mine : o.timestamp > m.timestamp}) = k - 1
    IN  [k \in 1..n |->
            [message_id |-> row[k].message_id, sender |-> row[k].sender,
             text |-> row[k].text, intent |-> row[k].intent,
             entities |-> LoadEntities(row[k].entities), timestamp |-> row[k].timestamp]]

\* fetch_recent_messages with LIMIT 1 in place of LIMIT $limit
fetch_recent_messages_latest_only(M, session_id, num_messages) ==
    LET mine == {m \in M : m.session = session_id}
    IN  IF mine = {} THEN <<>>
        ELSE LET m == CHOOSE x \in mine : \A o \in mine : o.timestamp <= x.timestamp
             IN  <<[message_id |-> m.message_id, sender |-> m.sender, text |-> m.text,
                    intent |-> m.intent, entities |-> LoadEntities(m.entities),
                    timestamp |-> m.timestamp]>>

\* _fetch_recent_messages: the session's messages ORDER BY timestamp DESC
\* LIMIT num_messages, returned reversed (oldest first).
fetch_recent_messages(M, session_id, num_messages) ==
    LET mine == {m \in M : m.session = session_id}
        n == IF Cardinality(mine) < num_messages THEN Cardinality(mine) ELSE num_messages
        \* the k-th row of the query: the k-th most recent message
        row[k \in 1..n] ==
            CHOOSE m \in mine : Cardinality({o \in mine : o.timestamp > m.timestamp}) = k - 1
        \* str(msg['timestamp']) keeps the order of the timestamps
        data(m) == [message_id |-> m.message_id, sender |-> m.sender, text |-> m.text,
                    intent |-> m.intent, entities |-> LoadEntities(m.entities),
                    timestamp |-> m.timestamp]
    IN  [k \in 1..n |-> data(row[n + 1 - k])]

\* _fetch_session_metadata: <<>> is None
fetch_session_metadata(S, session_id) ==
    IF session_id \notin DOMAIN S THEN <<>>
    ELSE <<[session_id |-> S[session_id].session_id,
            created_at |-> S[session_id].created_at,
            last_interaction |-> S[session_id].last_interaction,
            interaction_count |-> S[session_id].interaction_count,
            user_intent |-> S[session_id].user_intent,
            topic |-> S[session_id].topic,
            status |-> S[session_id].status]>>

\* update_intent that keeps a user_intent the session already has
update_intent_if_unset(S, session_id, intent, topic) ==
    IF session_id \notin DOMAIN S THEN S
    ELSE [S EXCEPT ![session_id].user_intent = IF @ = NULL THEN intent ELSE @,
                   ![session_id].topic = IF topic # NULL THEN topic ELSE @]

\* _update_intent: SET s.user_intent = $intent, s.topic = coalesce($topic, s.topic)
update_intent(S, session_id, intent, topic) ==
    IF session_id \notin DOMAIN S THEN S
    ELSE [S EXCEPT ![session_id].user_intent = intent,
                   ![session_id].topic = IF topic # NULL THEN topic ELSE @]

\* get_conversation_context: the rows read, or [] when the read raised
get_conversation_context(M, session_id, num_messages, raised) ==
    IF raised THEN <<>> ELSE fetch_recent_messages(M, session_id, num_messages)

\* get_session_metadata: the metadata read, or None when the read raised
get_session_metadata(S, session_id, raised) ==
    IF raised THEN <<>> ELSE fetch_session_metadata(S, session_id)

\* update_session_intent(session_id, intent, topic=None): a failure is logged
\* and swallowed, and the graph is as before.
update_session_intent(S, session_id, intent, topic, raised) ==
    IF raised THEN S ELSE update_intent(S, session_id, intent, topic)

\* 'Where is my order?'
MsgWhereIsMyOrder ==
    <<"W","h","e","r","e"," ","i","s"," ","m","y"," ","o","r","d","e","r","?">>

\* 'What about shipping cost?'
MsgShippingCost ==
    <<"W","h","a","t"," ","a","b","o","u","t"," ","s","h","i","p","p","i","n","g"," ","c","o","s","t","?">>

\* 'I want to return order #9981'
MsgReturnOrder ==
    <<"I"," ","w","a","n","t"," ","t","o"," ","r","e","t","u","r","n"," ","o","r","d","e","r"," ","#","9","9","8","1">>

\* 'xyz abc qqq'
MsgNoKeyword ==
    <<"x","y","z"," ","a","b","c"," ","q","q","q">>

\* ' my \rrefund\tplease\r\n'
MsgRefundSpaced ==
    <<" ","m","y"," ","\r","r","e","f","u","n","d","\t","p","l","e","a","s","e","\r","\n">>

\* ' \r\t'
MsgBlank ==
    <<" ","\r","\t">>

\* '<SCRIPT>alert(1)'
MsgScript ==
    <<"<","S","C","R","I","P","T",">","a","l","e","r","t","(","1",")">>

\* -------------------------------------------------------------------------
\* Requests
\* -------------------------------------------------------------------------

\* A message longer than MAX_MESSAGE_LENGTH
MsgTooLong == SubSeq([i \in 1..(MAX_MESSAGE_LENGTH + 1) |-> "a"], 1, MAX_MESSAGE_LENGTH + 1)

\* The "message" values of the requests
RawMessages ==
    {MsgWhereIsMyOrder, MsgShippingCost, MsgReturnOrder,
     MsgRefundSpaced, MsgBlank, MsgScript, MsgTooLong}

\* The ids uuid4 gives to the sessions, in the order of their creation
SessionPool == <<"session_1", "session_2", "session_3", "session_4">>

\* A well-formed session id that no session of the store has
UnknownSession == "session_unknown"

\* str(e) of the exceptions the Neo4j driver raises
StoreErrors == {"ServiceUnavailable: Unable to retrieve routing information"}

Workers == 1..NumWorkers

VARIABLES
    sessions,   \* the Session nodes: session_id -> properties
    messages,   \* the Message nodes, each with its session
    clock,      \* the time: datetime() of the store, and the source of fresh uuids
    pc,         \* per worker: where its request handler stands
    frame,      \* per worker: the local variables of send_message / process_message
    response,   \* per worker: <<>> or <<the HTTP response of the finished request>>
    calls,      \* per worker: the store calls of its request so far, with their outcome
    started,    \* requests accepted so far
    failures    \* store calls that raised so far

vars == <<sessions, messages, clock, pc, frame, response, calls, started, failures>>

NoIntentResult ==
    [intent |-> NULL, confidence |-> 0, entities |-> <<>>, text |-> <<>>, source |-> NULL]

\* The locals of a handler that has not run yet.  endpoint is the route of
\* its request; user_message_id is the message_id add_message returned for
\* the user message (0: none yet); generator_input, generator_context and
\* generator_metadata are the text, the context messages and the metadata
\* generate_response was called with.
IdleFrame ==
    [endpoint |-> NULL, session_id |-> NULL, user_message |-> <<>>,
     sanitized_message |-> <<>>, intent_result |-> NoIntentResult,
     context_history |-> <<>>, session_metadata |-> <<>>, bot_response |-> <<>>,
     user_message_id |-> 0, generator_input |-> <<>>, generator_context |-> <<>>,
     generator_metadata |-> <<>>]

Init ==
    /\ sessions = <<>>
    /\ messages = {}
    /\ clock = 1
    /\ pc = [w \in Workers |-> "idle"]
    /\ frame = [w \in Workers |-> IdleFrame]
    /\ response = [w \in Workers |-> <<>>]
    /\ calls = [w \in Workers |-> <<>>]
    /\ started = 0
    /\ failures = 0

\* Whether the next store call may raise
Outcomes == IF failures < MaxFailures THEN {TRUE, FALSE} ELSE {FALSE}

Logged(w, op, raised) == [calls EXCEPT ![w] = Append(@, [op |-> op, ok |-> ~raised])]

\* A worker takes a request when it has none or has answered its last one.
Free(w) == pc[w] \in {"idle", "done"}

\* message_id = f"msg_{uuid4().hex[:12]}": an id no earlier call has drawn.
\* Every call that draws one advances the clock.
NewMessageId == clock

\* session_id = f"session_{uuid4}": a fresh id
NewSessionId == SessionPool[Cardinality(DOMAIN sessions) + 1]

\* processing_error with str(e) as the error text
processing_error_leaky(session_id, e) ==
    [status |-> "error", error |-> e, session_id |-> session_id]

\* process_message, lines 634-640: the result of a turn that raised
processing_error(session_id, e) ==
    [status |-> "error", error |-> "Failed to process message", session_id |-> session_id]

\* send_message, lines 798-801: the engine's result as an HTTP response
engine_response(result) ==
    [http |-> IF result.status = "error" THEN 400 ELSE 200, body |-> result]

\* create_session / send_message, except clause: jsonify({'error': str(e)}), 500
route_error(e) == [http |-> 500, body |-> [error |-> e]]

\* process_message_begin without the return on an invalid message
process_message_begin_unvalidated(f) ==
    LET sanitized == sanitize_message(f.user_message)
    IN  [pc |-> "get_context",
         frame |-> [f EXCEPT !.sanitized_message = sanitized,
                             !.intent_result = classify_intent(sanitized)],
         response |-> <<>>]

\* process_message, lines 571-583: validate, sanitize, classify.  Gives the
\* handler's next position, its locals and its response if it has ended.
process_message_begin(f) ==
    LET v == validate_message(f.user_message)
    IN  IF ~v.is_valid
        THEN [pc |-> "done", frame |-> f,
              response |-> <<engine_response([status |-> "error", error |-> v.error_msg])>>]
        ELSE LET sanitized == sanitize_message(f.user_message)
             IN  [pc |-> "get_context",
                  frame |-> [f EXCEPT !.sanitized_message = sanitized,
                                      !.intent_result = classify_intent(sanitized)],
                  response |-> <<>>]

\* Route POST /api/session/create, line 738: session_id =
\* neo4j_manager.create_session().  An exception is answered 500 in the
\* except clause; otherwise the route goes on to build its answer.
CreateSession(w) ==
    /\ Free(w)
    /\ started < MaxRequests
    /\ Cardinality(DOMAIN sessions) < MaxSessions
    /\ started' = started + 1
    /\ \E raised \in Outcomes :
        /\ calls' = [calls EXCEPT ![w] = <<[op |-> "create_session", ok |-> ~raised]>>]
        /\ IF raised
           THEN /\ \E e \in StoreErrors : response' = [response EXCEPT ![w] = <<route_error(e)>>]
                /\ failures' = failures + 1
                /\ pc' = [pc EXCEPT ![w] = "done"]
                /\ frame' = [frame EXCEPT ![w] =
                       [IdleFrame EXCEPT !.endpoint = "/api/session/create"]]
                /\ UNCHANGED sessions
           ELSE /\ sessions' = create_session_node(sessions, NewSessionId, clock)
                /\ response' = [response EXCEPT ![w] = <<>>]
                /\ pc' = [pc EXCEPT ![w] = "create_answer"]
                /\ frame' = [frame EXCEPT ![w] =
                       [IdleFrame EXCEPT !.endpoint = "/api/session/create",
                                         !.session_id = NewSessionId]]
                /\ UNCHANGED failures
    /\ clock' = clock + 1
    /\ UNCHANGED messages

\* Route POST /api/session/create, lines 739-743: the answer, with
\* datetime.now() read after create_session has returned.  Writes of other
\* requests may have been made since; the time read is that of the latest
\* write.
CreateSessionAnswer(w) ==
    /\ pc[w] = "create_answer"
    /\ response' = [response EXCEPT ![w] =
           <<[http |-> 201,
              body |-> [session_id |-> frame[w].session_id, status |-> "created",
                        timestamp |-> clock - 1]]>>]
    /\ pc' = [pc EXCEPT ![w] = "done"]
    /\ UNCHANGED <<sessions, messages, clock, frame, calls, started, failures>>

\* Route POST /api/message/send, lines 786-796 up to the first store call:
\* the message is stripped; an empty one is answered 400; without a
\* session_id a session is created next; otherwise process_message starts.
SendMessage(w) ==
    /\ Free(w)
    /\ started < MaxRequests
    /\ started' = started + 1
    /\ \E message \in RawMessages :
        LET user_message == Strip(message)
        IN  \E session_id \in DOMAIN sessions \cup {UnknownSession, NULL} :
            LET f == [IdleFrame EXCEPT !.endpoint = "/api/message/send",
                                       !.session_id = session_id,
                                       !.user_message = user_message]
            IN  IF Len(user_message) = 0
                THEN /\ pc' = [pc EXCEPT ![w] = "done"]
                     /\ frame' = [frame EXCEPT ![w] = f]
                     /\ response' = [response EXCEPT ![w] =
                            <<[http |-> 400, body |-> [error |-> "Empty message"]]>>]
                ELSE IF session_id = NULL
                THEN /\ Cardinality(DOMAIN sessions) < MaxSessions
                     /\ pc' = [pc EXCEPT ![w] = "create_session"]
                     /\ frame' = [frame EXCEPT ![w] = f]
                     /\ response' = [response EXCEPT ![w] = <<>>]
                ELSE LET begun == process_message_begin(f)
                     IN  /\ pc' = [pc EXCEPT ![w] = begun.pc]
                         /\ frame' = [frame EXCEPT ![w] = begun.frame]
                         /\ response' = [response EXCEPT ![w] = begun.response]
    /\ calls' = [calls EXCEPT ![w] = <<>>]
    /\ UNCHANGED <<sessions, messages, clock, failures>>

\* send_message, lines 793-796: session_id = neo4j_manager.create_session(),
\* then process_message starts; an exception ends the request with 500.
ImplicitCreate(w) ==
    /\ pc[w] = "create_session"
    /\ \E raised \in Outcomes :
        /\ calls' = Logged(w, "create_session", raised)
        /\ IF raised
           THEN /\ \E e \in StoreErrors : response' = [response EXCEPT ![w] = <<route_error(e)>>]
                /\ pc' = [pc EXCEPT ![w] = "done"]
                /\ failures' = failures + 1
                /\ UNCHANGED <<sessions, frame>>
           ELSE LET begun == process_message_begin(
                                 [frame[w] EXCEPT !.session_id = NewSessionId])
                IN  /\ sessions' = create_session_node(sessions, NewSessionId, clock)
                    /\ pc' = [pc EXCEPT ![w] = begun.pc]
                    /\ frame' = [frame EXCEPT ![w] = begun.frame]
                    /\ response' = [response EXCEPT ![w] = begun.response]
                    /\ UNCHANGED failures
    /\ clock' = clock + 1
    /\ UNCHANGED <<messages, started>>

\* GetContext with a get_conversation_context that re-raises: the exception
\* reaches the except clause of process_message and ends the turn.
GetContextPropagates(w) ==
    /\ pc[w] = "get_context"
    /\ \E raised \in Outcomes :
        /\ calls' = Logged(w, "get_conversation_context", raised)
        /\ IF raised
           THEN /\ \E e \in StoreErrors :
                    response' = [response EXCEPT ![w] =
                        <<engine_response(processing_error(frame[w].session_id, e))>>]
                /\ pc' = [pc EXCEPT ![w] = "done"]
                /\ failures' = failures + 1
                /\ UNCHANGED frame
           ELSE /\ frame' = [frame EXCEPT ![w].context_history =
                       get_conversation_context(messages, frame[w].session_id,
                                                CONTEXT_WINDOW_SIZE, FALSE)]
                /\ pc' = [pc EXCEPT ![w] = "get_metadata"]
                /\ UNCHANGED <<response, failures>>
    /\ UNCHANGED <<sessions, messages, clock, started>>

\* process_message, step 2: context_history = get_conversation_context(...)
GetContext(w) ==
    /\ pc[w] = "get_context"
    /\ \E raised \in Outcomes :
        /\ calls' = Logged(w, "get_conversation_context", raised)
        /\ frame' = [frame EXCEPT ![w].context_history =
               get_conversation_context(messages, frame[w].session_id,
                                        CONTEXT_WINDOW_SIZE, raised)]
        /\ failures' = IF raised THEN failures + 1 ELSE failures
    /\ pc' = [pc EXCEPT ![w] = "get_metadata"]
    /\ UNCHANGED <<sessions, messages, clock, response, started>>

\* process_message, step 3: session_metadata = get_session_metadata(session_id)
GetMetadata(w) ==
    /\ pc[w] = "get_metadata"
    /\ \E raised \in Outcomes :
        /\ calls' = Logged(w, "get_session_metadata", raised)
        /\ frame' = [frame EXCEPT ![w].session_metadata =
               get_session_metadata(sessions, frame[w].session_id, raised)]
        /\ failures' = IF raised THEN failures + 1 ELSE failures
    /\ pc' = [pc EXCEPT ![w] = "add_user"]
    /\ UNCHANGED <<sessions, messages, clock, response, started>>

\* AddUserMessage that goes on to the next step after a failure
AddUserMessageSwallowed(w) ==
    /\ pc[w] = "add_user"
    /\ \E raised \in Outcomes :
        /\ calls' = Logged(w, "add_message_user", raised)
        /\ IF raised
           THEN /\ failures' = failures + 1
                /\ UNCHANGED <<sessions, messages, frame>>
           ELSE LET after == add_message_node(sessions, messages, clock,
                                 frame[w].session_id, NewMessageId, "user",
                                 frame[w].sanitized_message, frame[w].intent_result.intent,
                                 EntitiesDict(frame[w].intent_result.entities))
                IN  /\ sessions' = after.sessions
                    /\ messages' = after.messages
                    /\ frame' = [frame EXCEPT ![w].user_message_id = NewMessageId]
                    /\ UNCHANGED failures
    /\ pc' = [pc EXCEPT ![w] = "update_intent"]
    /\ clock' = clock + 1
    /\ UNCHANGED <<response, started>>

\* AddUserMessage that calls add_message again after a failure
AddUserMessageRetry(w) ==
    /\ pc[w] = "add_user"
    /\ \E raised \in Outcomes :
        /\ calls' = Logged(w, "add_message_user", raised)
        /\ IF raised
           THEN /\ failures' = failures + 1
                /\ UNCHANGED <<sessions, messages, frame, pc>>
           ELSE LET after == add_message_node(sessions, messages, clock,
                                 frame[w].session_id, NewMessageId, "user",
                                 frame[w].sanitized_message, frame[w].intent_result.intent,
                                 EntitiesDict(frame[w].intent_result.entities))
                IN  /\ sessions' = after.sessions
                    /\ messages' = after.messages
                    /\ frame' = [frame EXCEPT ![w].user_message_id = NewMessageId]
                    /\ pc' = [pc EXCEPT ![w] = "update_intent"]
                    /\ UNCHANGED failures
    /\ clock' = clock + 1
    /\ UNCHANGED <<response, started>>

\* process_message, step 4: add_message(sender='user', text=sanitized_message,
\* intent=intent, entities={...}); an exception ends the turn in the except clause.
AddUserMessage(w) ==
    /\ pc[w] = "add_user"
    /\ \E raised \in Outcomes :
        /\ calls' = Logged(w, "add_message_user", raised)
        /\ IF raised
           THEN /\ \E e \in StoreErrors :
                    response' = [response EXCEPT ![w] =
                        <<engine_response(processing_error(frame[w].session_id, e))>>]
                /\ pc' = [pc EXCEPT ![w] = "done"]
                /\ failures' = failures + 1
                /\ UNCHANGED <<sessions, messages, frame>>
           ELSE LET after == add_message_node(sessions, messages, clock,
                                 frame[w].session_id, NewMessageId, "user",
                                 frame[w].sanitized_message, frame[w].intent_result.intent,
                                 EntitiesDict(frame[w].intent_result.entities))
                IN  /\ sessions' = after.sessions
                    /\ messages' = after.messages
                    /\ frame' = [frame EXCEPT ![w].user_message_id = NewMessageId]
                    /\ pc' = [pc EXCEPT ![w] = "update_intent"]
                    /\ UNCHANGED <<response, failures>>
    /\ clock' = clock + 1
    /\ UNCHANGED started

\* UpdateIntent that fetches the context and the metadata again, after the
\* update, and generates the reply from those.
UpdateIntentRefetch(w) ==
    /\ pc[w] = "update_intent"
    /\ \E raised \in Outcomes :
        /\ calls' = Logged(w, "update_session_intent", raised)
        /\ sessions' = update_session_intent(sessions, frame[w].session_id,
                           frame[w].intent_result.intent, NULL, raised)
        /\ failures' = IF raised THEN failures + 1 ELSE failures
    /\ LET context == get_conversation_context(messages, frame[w].session_id,
                                               CONTEXT_WINDOW_SIZE, FALSE)
           metadata == get_session_metadata(sessions', frame[w].session_id, FALSE)
       IN  \E bot_response \in generate_response(
                                   frame[w].sanitized_message,
                                   [i \in 1..Len(context) |-> context[i].text],
                                   frame[w].intent_result.intent,
                                   metadata) :
               frame' = [frame EXCEPT ![w].bot_response = bot_response,
                                      ![w].generator_input = frame[w].sanitized_message,
                                      ![w].generator_context = context,
                                      ![w].generator_metadata = metadata]
    /\ pc' = [pc EXCEPT ![w] = "add_bot"]
    /\ UNCHANGED <<messages, clock, response, started>>

\* process_message, steps 5 and 6: update_session_intent(session_id, intent),
\* whose failure is swallowed, then generate_response from the context and
\* metadata fetched in steps 2 and 3.
UpdateIntent(w) ==
    /\ pc[w] = "update_intent"
    /\ \E raised \in Outcomes :
        /\ calls' = Logged(w, "update_session_intent", raised)
        /\ sessions' = update_session_intent(sessions, frame[w].session_id,
                           frame[w].intent_result.intent, NULL, raised)
        /\ failures' = IF raised THEN failures + 1 ELSE failures
    /\ \E bot_response \in generate_response(
                               frame[w].sanitized_message,
                               [i \in 1..Len(frame[w].context_history) |->
                                   frame[w].context_history[i].text],
                               frame[w].intent_result.intent,
                               frame[w].session_metadata) :
        frame' = [frame EXCEPT ![w].bot_response = bot_response,
                               ![w].generator_input = frame[w].sanitized_message,
                               ![w].generator_context = frame[w].context_history,
                               ![w].generator_metadata = frame[w].session_metadata]
    /\ pc' = [pc EXCEPT ![w] = "add_bot"]
    /\ UNCHANGED <<messages, clock, response, started>>

\* f"response_to_{intent}" for the intents classify_intent returns
response_to ==
    [order_status    |-> "response_to_order_status",
     product_info    |-> "response_to_product_info",
     return_refund   |-> "response_to_return_refund",
     troubleshooting |-> "response_to_troubleshooting",
     shipping        |-> "response_to_shipping",
     general_inquiry |-> "response_to_general_inquiry"]

\* process_message, lines 623-632: the result of a turn that succeeded
success_result(f) ==
    [status |-> "success", session_id |-> f.session_id, bot_response |-> f.bot_response,
     intent |-> f.intent_result.intent, confidence |-> f.intent_result.confidence,
     entities |-> EntitiesDict(f.intent_result.entities),
     is_followup |-> Len(f.context_history) > 0,
     context_messages |-> Len(f.context_history)]

\* AddBotMessage with sender='user' in its add_message
AddBotMessageAsUser(w) ==
    /\ pc[w] = "add_bot"
    /\ \E raised \in Outcomes :
        /\ calls' = Logged(w, "add_message_bot", raised)
        /\ IF raised
           THEN /\ \E e \in StoreErrors :
                    response' = [response EXCEPT ![w] =
                        <<engine_response(processing_error(frame[w].session_id, e))>>]
                /\ failures' = failures + 1
                /\ UNCHANGED <<sessions, messages>>
           ELSE LET after == add_message_node(sessions, messages, clock,
                                 frame[w].session_id, NewMessageId, "user",
                                 frame[w].bot_response,
                                 response_to[frame[w].intent_result.intent],
                                 <<>>)
                IN  /\ sessions' = after.sessions
                    /\ messages' = after.messages
                    /\ response' = [response EXCEPT ![w] =
                           <<engine_response(success_result(frame[w]))>>]
                    /\ UNCHANGED failures
    /\ clock' = clock + 1
    /\ pc' = [pc EXCEPT ![w] = "done"]
    /\ UNCHANGED <<frame, started>>

\* process_message, step 7 and the return: add_message(sender='bot',
\* text=bot_response, intent="response_to_<intent>").
AddBotMessage(w) ==
    /\ pc[w] = "add_bot"
    /\ \E raised \in Outcomes :
        /\ calls' = Logged(w, "add_message_bot", raised)
        /\ IF raised
           THEN /\ \E e \in StoreErrors :
                    response' = [response EXCEPT ![w] =
                        <<engine_response(processing_error(frame[w].session_id, e))>>]
                /\ failures' = failures + 1
                /\ UNCHANGED <<sessions, messages>>
           ELSE LET after == add_message_node(sessions, messages, clock,
                                 frame[w].session_id, NewMessageId, "bot",
                                 frame[w].bot_response,
                                 response_to[frame[w].intent_result.intent],
                                 <<>>)
                IN  /\ sessions' = after.sessions
                    /\ messages' = after.messages
                    /\ response' = [response EXCEPT ![w] =
                           <<engine_response(success_result(frame[w]))>>]
                    /\ UNCHANGED failures
    /\ clock' = clock + 1
    /\ pc' = [pc EXCEPT ![w] = "done"]
    /\ UNCHANGED <<frame, started>>

Next ==
    \E w \in Workers :
        \/ CreateSession(w)
        \/ CreateSessionAnswer(w)
        \/ SendMessage(w)
        \/ ImplicitCreate(w)
        \/ GetContext(w)
        \/ GetMetadata(w)
        \/ AddUserMessage(w)
        \/ UpdateIntent(w)
        \/ AddBotMessage(w)

Spec == Init /\ [][Next]_vars

\* -------------------------------------------------------------------------
\* Turns on a store that does not fail
\* -------------------------------------------------------------------------
\* The workers send messages to a store that holds one session, new or with
\* one turn behind it, and whose calls do not raise.

\* The store after create_session
SeedCreated == create_session_node(<<>>, SessionPool[1], 1)

\* The store after a turn "Where is my order?" on that session
SeedTurn ==
    LET asked == classify_intent(sanitize_message(MsgWhereIsMyOrder))
        user == add_message_node(SeedCreated, {}, 2, SessionPool[1], 2, "user",
                                 sanitize_message(MsgWhereIsMyOrder), asked.intent,
                                 EntitiesDict(asked.entities))
        updated == update_session_intent(user.sessions, SessionPool[1], asked.intent,
                                         NULL, FALSE)
    IN  add_message_node(updated, user.messages, 3, SessionPool[1], 3, "bot",
                         intent_responses[asked.intent]["first_ask"][1],
                         response_to[asked.intent], <<>>)

\* The clock after the seeded calls: create_session and the two add_message
SeedClock == Cardinality(SeedTurn.messages) + 2

TurnsInit ==
    /\ \/ sessions = SeedCreated /\ messages = {}
       \/ sessions = SeedTurn.sessions /\ messages = SeedTurn.messages
    /\ clock = SeedClock
    /\ pc = [w \in Workers |-> "idle"]
    /\ frame = [w \in Workers |-> IdleFrame]
    /\ response = [w \in Workers |-> <<>>]
    /\ calls = [w \in Workers |-> <<>>]
    /\ started = 0
    /\ failures = MaxFailures

\* The steps of a request between its start and its answer
Handle(w) ==
    \/ ImplicitCreate(w)
    \/ GetContext(w)
    \/ GetMetadata(w)
    \/ AddUserMessage(w)
    \/ UpdateIntent(w)
    \/ AddBotMessage(w)

TurnsNext ==
    \E w \in Workers :
        \/ SendMessage(w)
        \/ Handle(w)

TurnsSpec == TurnsInit /\ [][TurnsNext]_vars

\* -------------------------------------------------------------------------
\* Direct calls of MessageValidator and RasaIntentClassifier
\* -------------------------------------------------------------------------
\* The validator and the classifier are static or stateless: one caller
\* applies each of them to a text.  The text is the caller's user_message;
\* the value validate_message returns is its response, the values of
\* sanitize_message and classify_intent are its sanitized_message and
\* intent_result.

\* The longest phrase, in words
MaxWords == 3

\* 'order', 'refund', 'money', 'cost': keywords of order_status, return_refund
\* (two) and product_info; 'xyz': no keyword; '#9981': an order number
Vocabulary ==
    {<<"o","r","d","e","r">>,
     <<"r","e","f","u","n","d">>,
     <<"m","o","n","e","y">>,
     <<"c","o","s","t">>,
     <<"x","y","z">>,
     <<"#","9","9","8","1">>}

\* The phrases of one to n words of the vocabulary, a space apart
RECURSIVE Phrases(_)
Phrases(n) ==
    IF n <= 1 THEN Vocabulary
    ELSE LET shorter == Phrases(n - 1)
         IN  shorter \cup {p \o <<" ">> \o v : p \in shorter, v \in Vocabulary}

\* c * n
Repeat(c, n) == SubSeq([i \in 1..n |-> c], 1, n)

\* Texts at the limits of the validator: empty, whitespace only, of
\* MAX_MESSAGE_LENGTH characters and one more, with and without a character
\* that is not whitespace
BoundaryTexts ==
    {<<>>, <<" ">>, MsgBlank,
     Repeat("a", MAX_MESSAGE_LENGTH), Repeat("a", MAX_MESSAGE_LENGTH + 1),
     Repeat(" ", MAX_MESSAGE_LENGTH), Repeat(" ", MAX_MESSAGE_LENGTH + 1),
     Repeat(" ", MAX_MESSAGE_LENGTH) \o <<"a">>,
     <<"a">> \o Repeat("\t", MAX_MESSAGE_LENGTH)}

\* 'a \t\n b ': a run of three whitespace characters inside, one at the end
MsgWideGap ==
    <<"a"," ","\t","\n","b"," ">>

\* Each whitespace character alone, and between and after two letters
WhitespaceTexts ==
    {<<c>> : c \in Whitespace} \cup {<<"a", c, "b", c>> : c \in Whitespace}

\* 'École ORDER': upper-case letters in and outside A to Z
MsgAccented ==
    <<"É","c","o","l","e"," ","O","R","D","E","R">>

\* The texts the functions are called with
Texts ==
    Phrases(MaxWords) \cup BoundaryTexts \cup WhitespaceTexts \cup RawMessages \cup
    {MsgNoKeyword, MsgWideGap, MsgAccented}

\* The worker that makes the calls
Caller == 1

PureInit ==
    /\ sessions = <<>>
    /\ messages = {}
    /\ clock = 1
    /\ started = 0
    /\ failures = 0
    /\ calls = [w \in Workers |-> <<>>]
    /\ response = [w \in Workers |-> <<>>]
    /\ pc = [w \in Workers |-> IF w = Caller THEN "validate_message" ELSE "idle"]
    /\ \E text \in Texts :
           frame = [w \in Workers |->
                       IF w = Caller THEN [IdleFrame EXCEPT !.user_message = text]
                       ELSE IdleFrame]

\* is_valid, error_msg = MessageValidator.validate_message(text)
ValidateMessage ==
    /\ pc[Caller] = "validate_message"
    /\ response' = [response EXCEPT ![Caller] = <<validate_message(frame[Caller].user_message)>>]
    /\ pc' = [pc EXCEPT ![Caller] = "sanitize_message"]
    /\ UNCHANGED <<sessions, messages, clock, frame, calls, started, failures>>

\* sanitized = MessageValidator.sanitize_message(text)
SanitizeMessage ==
    /\ pc[Caller] = "sanitize_message"
    /\ frame' = [frame EXCEPT ![Caller].sanitized_message =
                     sanitize_message(frame[Caller].user_message)]
    /\ pc' = [pc EXCEPT ![Caller] = "classify_intent"]
    /\ UNCHANGED <<sessions, messages, clock, response, calls, started, failures>>

\* intent_result = RasaIntentClassifier.classify_intent(text)
ClassifyIntent ==
    /\ pc[Caller] = "classify_intent"
    /\ frame' = [frame EXCEPT ![Caller].intent_result =
                     classify_intent(frame[Caller].user_message)]
    /\ pc' = [pc EXCEPT ![Caller] = "returned"]
    /\ UNCHANGED <<sessions, messages, clock, response, calls, started, failures>>

PureNext ==
    \/ ValidateMessage
    \/ SanitizeMessage
    \/ ClassifyIntent

PureSpec == PureInit /\ [][PureNext]_vars

\* -------------------------------------------------------------------------
\* Direct calls of Neo4jSessionManager
\* -------------------------------------------------------------------------
\* One caller creates sessions, adds messages and reads the context of a
\* session with a limit of its choice (as the route GET
\* /api/conversation/history/<session_id>?limit= does).  The context read is
\* the caller's context_history, and its call log holds the arguments of the
\* read.  What a call returns, or the exception it raises, is the caller's
\* response.  The messages of a session are added user, bot, user, bot.

\* The most add_message calls
MaxMessages == 7

\* The limits the context is read with
ContextLimits == {1, 2, CONTEXT_WINDOW_SIZE}

\* 'Let me help you check the status of your order. What's your order number?'
BotReply == intent_responses["order_status"].first_ask[2]

StoreInit ==
    /\ sessions = <<>>
    /\ messages = {}
    /\ clock = 1
    /\ started = 0
    /\ failures = 0
    /\ calls = [w \in Workers |-> <<>>]
    /\ response = [w \in Workers |-> <<>>]
    /\ pc = [w \in Workers |-> "idle"]
    /\ frame = [w \in Workers |-> IdleFrame]

\* session_id = neo4j_manager.create_session(): the id, or the exception of
\* the write, which create_session raises again
StoreCreateSession ==
    /\ Cardinality(DOMAIN sessions) < MaxSessions
    /\ \E raised \in Outcomes :
        /\ calls' = [calls EXCEPT ![Caller] = <<[op |-> "create_session", ok |-> ~raised]>>]
        /\ IF raised
           THEN /\ \E e \in StoreErrors :
                    response' = [response EXCEPT ![Caller] = <<[raised |-> e]>>]
                /\ failures' = failures + 1
                /\ UNCHANGED sessions
           ELSE /\ sessions' = create_session_node(sessions, NewSessionId, clock)
                /\ response' = [response EXCEPT ![Caller] = <<[session_id |-> NewSessionId]>>]
                /\ UNCHANGED failures
    /\ clock' = clock + 1
    /\ pc' = [pc EXCEPT ![Caller] = "created"]
    /\ frame' = [frame EXCEPT ![Caller] = IdleFrame]
    /\ UNCHANGED <<messages, started>>

\* result = neo4j_manager.add_message(session_id, sender, text, intent):
\* {"message_id": ..., "status": "added"}, also when no session matched, or
\* the exception of the write, which add_message raises again
StoreAddMessage ==
    /\ clock - Cardinality(DOMAIN sessions) <= MaxMessages
    /\ \E session_id \in DOMAIN sessions \cup {UnknownSession}, raised \in Outcomes :
        LET stored == Cardinality({m \in messages : m.session = session_id})
            after == IF stored % 2 = 0
                     THEN add_message_node(sessions, messages, clock, session_id,
                              NewMessageId, "user", MsgWhereIsMyOrder, "order_status", <<>>)
                     ELSE add_message_node(sessions, messages, clock, session_id,
                              NewMessageId, "bot", BotReply, response_to["order_status"], <<>>)
        IN  /\ calls' = [calls EXCEPT ![Caller] =
                   <<[op |-> IF stored % 2 = 0 THEN "add_message_user" ELSE "add_message_bot",
                      ok |-> ~raised]>>]
            /\ IF raised
               THEN /\ \E e \in StoreErrors :
                        response' = [response EXCEPT ![Caller] = <<[raised |-> e]>>]
                    /\ failures' = failures + 1
                    /\ UNCHANGED <<sessions, messages>>
               ELSE /\ sessions' = after.sessions
                    /\ messages' = after.messages
                    /\ response' = [response EXCEPT ![Caller] =
                           <<[message_id |-> NewMessageId, status |-> "added"]>>]
                    /\ UNCHANGED failures
            /\ frame' = [frame EXCEPT ![Caller] = [IdleFrame EXCEPT !.session_id = session_id]]
    /\ clock' = clock + 1
    /\ pc' = [pc EXCEPT ![Caller] = "added"]
    /\ UNCHANGED started

\* history = neo4j_manager.get_conversation_context(session_id, limit)
StoreGetContext ==
    /\ pc[Caller] # "fetched"
    /\ \E session_id \in DOMAIN sessions \cup {UnknownSession}, limit \in ContextLimits,
          raised \in Outcomes :
        /\ calls' = [calls EXCEPT ![Caller] =
               <<[op |-> "get_conversation_context", ok |-> ~raised,
                  session_id |-> session_id, num_messages |-> limit]>>]
        /\ frame' = [frame EXCEPT ![Caller] =
               [IdleFrame EXCEPT !.session_id = session_id,
                                 !.context_history =
                                     get_conversation_context(messages, session_id, limit, raised)]]
        /\ response' = [response EXCEPT ![Caller] =
               <<get_conversation_context(messages, session_id, limit, raised)>>]
        /\ failures' = IF raised THEN failures + 1 ELSE failures
    /\ pc' = [pc EXCEPT ![Caller] = "fetched"]
    /\ UNCHANGED <<sessions, messages, clock, started>>

StoreNext ==
    \/ StoreCreateSession
    \/ StoreAddMessage
    \/ StoreGetContext

StoreSpec == StoreInit /\ [][StoreNext]_vars

\* -------------------------------------------------------------------------
\* Direct calls of ContextAwareResponseGenerator
\* -------------------------------------------------------------------------
\* One caller applies _is_followup_question, _extract_order_number and
\* generate_response to a message, a context (the texts of the context
\* messages), an intent and the session metadata.  The arguments are the
\* caller's generator_input, context_history, intent_result.intent and
\* session_metadata; the values of the first two calls are its response, the
\* reply is its bot_response.

\* 'order 12345 or 67890': two order numbers
MsgTwoNumbers ==
    <<"o","r","d","e","r"," ","1","2","3","4","5"," ","o","r"," ","6","7","8","9","0">>

\* 'track 123': digits, but fewer than four
MsgShortNumber ==
    <<"t","r","a","c","k"," ","1","2","3">>

\* 'it is #555555'
MsgNumberOnly ==
    <<"i","t"," ","i","s"," ","#","5","5","5","5","5","5">>

\* The messages generate_response is called with
GeneratorInputs == {MsgWhereIsMyOrder, MsgReturnOrder, MsgTwoNumbers, MsgShortNumber}

\* The contexts: none, one message, a turn, and two that hold order numbers
\* in more than one message
GeneratorContexts ==
    {<<>>,
     <<MsgWhereIsMyOrder>>,
     <<MsgWhereIsMyOrder, BotReply>>,
     <<MsgShortNumber, BotReply, MsgNumberOnly, MsgTwoNumbers>>,
     <<MsgReturnOrder, BotReply, MsgNumberOnly>>}

\* The intents: those of the classifier, None, and one without templates
GeneratorIntents ==
    {"order_status", "product_info", "return_refund", "troubleshooting", "shipping",
     "general_inquiry", NULL, "feedback"}

\* The metadata: None, and the user_intent of a session (null before its
\* first turn)
GeneratorMetadata ==
    {<<>>} \cup
    {<<[user_intent |-> p]>> :
        p \in {NULL, "order_status", "product_info", "return_refund", "troubleshooting",
               "shipping", "general_inquiry"}}

\* if not intent: intent = 'general_inquiry'
intent_or_default(intent) ==
    IF intent = NULL \/ intent = "" THEN "general_inquiry" ELSE intent

GeneratorInit ==
    /\ sessions = <<>>
    /\ messages = {}
    /\ clock = 1
    /\ started = 0
    /\ failures = 0
    /\ calls = [w \in Workers |-> <<>>]
    /\ response = [w \in Workers |-> <<>>]
    /\ pc = [w \in Workers |-> IF w = Caller THEN "is_followup_question" ELSE "idle"]
    /\ \E user_input \in GeneratorInputs, context_history \in GeneratorContexts,
          intent \in GeneratorIntents, session_metadata \in GeneratorMetadata :
           frame = [w \in Workers |->
                       IF w = Caller
                       THEN [IdleFrame EXCEPT !.generator_input = user_input,
                                              !.context_history = context_history,
                                              !.intent_result.intent = intent,
                                              !.session_metadata = session_metadata]
                       ELSE IdleFrame]

\* is_followup = self._is_followup_question(context_history, intent, session_metadata),
\* with the intent generate_response has defaulted
IsFollowupQuestion ==
    /\ pc[Caller] = "is_followup_question"
    /\ response' = [response EXCEPT ![Caller] =
           <<[is_followup |->
                 is_followup_question(frame[Caller].context_history,
                                      intent_or_default(frame[Caller].intent_result.intent),
                                      frame[Caller].session_metadata)]>>]
    /\ pc' = [pc EXCEPT ![Caller] = "extract_order_number"]
    /\ UNCHANGED <<sessions, messages, clock, frame, calls, started, failures>>

\* order_number = self._extract_order_number(user_input, context_history)
ExtractOrderNumber ==
    /\ pc[Caller] = "extract_order_number"
    /\ response' = [response EXCEPT ![Caller] =
           <<[is_followup |-> response[Caller][1].is_followup,
              order_number |-> extract_order_number(frame[Caller].generator_input,
                                                    frame[Caller].context_history)]>>]
    /\ pc' = [pc EXCEPT ![Caller] = "generate_response"]
    /\ UNCHANGED <<sessions, messages, clock, frame, calls, started, failures>>

\* response = generate_response(user_input, context_history, intent, session_metadata)
GenerateResponse ==
    /\ pc[Caller] = "generate_response"
    /\ \E bot_response \in generate_response(frame[Caller].generator_input,
                                              frame[Caller].context_history,
                                              frame[Caller].intent_result.intent,
                                              frame[Caller].session_metadata) :
           frame' = [frame EXCEPT ![Caller].bot_response = bot_response]
    /\ pc' = [pc EXCEPT ![Caller] = "returned"]
    /\ UNCHANGED <<sessions, messages, clock, response, calls, started, failures>>

GeneratorNext ==
    \/ IsFollowupQuestion
    \/ ExtractOrderNumber
    \/ GenerateResponse

GeneratorSpec == GeneratorInit /\ [][GeneratorNext]_vars

\* -------------------------------------------------------------------------
\* Properties
\* -------------------------------------------------------------------------

\* The body of the HTTP response of a worker that has answered
Body(w) == response[w][1].body

\* The worker's request is a message/send whose handler has called
\* process_message: the stripped message is not empty and the implicit
\* create_session, if there was one, has returned.
EngineCalled(w) ==
    /\ frame[w].endpoint = "/api/message/send"
    /\ pc[w] \notin {"idle", "create_session"}
    /\ Len(frame[w].user_message) > 0
    /\ \A i \in 1..Len(calls[w]) : calls[w][i].op = "create_session" => calls[w][i].ok

\* The store calls process_message has issued for the worker's request, in order
TurnOps(w) ==
    LET turn == SelectSeq(calls[w], LAMBDA c : c.op # "create_session")
    IN  [i \in 1..Len(turn) |-> turn[i].op]

\* One of the worker's store calls named in ops has raised
Raised(w, ops) == \E i \in 1..Len(calls[w]) : calls[w][i].op \in ops /\ ~calls[w][i].ok

\* The worker has answered its request with a process_message result of this status
Answered(w, status) ==
    /\ pc[w] = "done"
    /\ "status" \in DOMAIN Body(w)
    /\ Body(w).status = status

MessagesOf(session_id) == {m \in messages : m.session = session_id}

IsPrefix(a, b) == Len(a) <= Len(b) /\ \A i \in 1..Len(a) : a[i] = b[i]

\* C1: in every reachable state every message is linked to a session of the
\* store and every session's interaction_count is the number of messages
\* linked to it.
InteractionCountMatchesMessages ==
    /\ \A m \in messages : m.session \in DOMAIN sessions
    /\ \A s \in DOMAIN sessions :
           sessions[s].interaction_count = Cardinality(MessagesOf(s))

\* A session with three messages: a finished turn of one worker and, between
\* its two messages, the user message of a turn of the other worker whose
\* bot message then failed to be stored.
InteractionCountWitness ==
    \E s \in DOMAIN sessions, w1 \in Workers, w2 \in Workers :
        /\ w1 # w2
        /\ frame[w1].session_id = s /\ frame[w2].session_id = s
        /\ Answered(w1, "success")
        /\ Answered(w2, "error") /\ Raised(w2, {"add_message_bot"})
        /\ sessions[s].interaction_count = 3
        /\ frame[w1].user_message_id < frame[w2].user_message_id
        /\ \E m \in MessagesOf(s) :
               m.sender = "bot" /\ m.timestamp > frame[w2].user_message_id

\* C2: once process_message has been called with a message that fails
\* validation the request is answered with the validation error, no store
\* call has been issued by process_message and no reply has been generated.
InvalidMessageTouchesNoStore ==
    \A w \in Workers :
        (EngineCalled(w) /\ ~validate_message(frame[w].user_message).is_valid) =>
            /\ Answered(w, "error")
            /\ Body(w).error = validate_message(frame[w].user_message).error_msg
            /\ TurnOps(w) = <<>>
            /\ frame[w].bot_response = <<>>
            /\ frame[w].user_message_id = 0

\* A message with an injection pattern, sent to a session that already has
\* messages, has been answered.
InvalidMessageWitness ==
    \E w \in Workers :
        /\ EngineCalled(w)
        /\ frame[w].session_id \in DOMAIN sessions
        /\ sessions[frame[w].session_id].interaction_count >= 2
        /\ Answered(w, "error")
        /\ Body(w).error = "Invalid message format"

\* C3: a message/send request whose message validation rejects (empty, too
\* long, injection pattern) issues no store call at all.
RejectedRequestTouchesNoStore ==
    \A w \in Workers :
        (/\ frame[w].endpoint = "/api/message/send"
         /\ ~validate_message(frame[w].user_message).is_valid)
            => calls[w] = <<>>

\* C4: the context messages and the metadata the reply was generated from
\* were read before the turn's user message was stored: every context message
\* is another, earlier message, the metadata counts no more messages than the
\* session had before the user message, and its user_intent is null or the
\* intent of an earlier user message of the session.
ContextIsPreUpdate ==
    \A w \in Workers :
        frame[w].bot_response # <<>> =>
            LET f == frame[w]
                own == {m \in messages : m.message_id = f.user_message_id}
                before(o) == {m \in MessagesOf(f.session_id) : m.timestamp < o.timestamp}
            IN  /\ \A i \in 1..Len(f.generator_context) :
                       /\ f.generator_context[i].message_id # f.user_message_id
                       /\ own # {}
                       /\ \A o \in own : f.generator_context[i].timestamp < o.timestamp
                /\ f.generator_metadata # <<>> =>
                       /\ own # {}
                       /\ \A o \in own :
                              /\ f.generator_metadata[1].interaction_count
                                     <= Cardinality(before(o))
                              /\ f.generator_metadata[1].user_intent \in
                                     {NULL} \cup {m.intent : m \in {b \in before(o) : b.sender = "user"}}

\* A second turn of a session has ended: its reply was generated from the two
\* messages of the first turn and from metadata holding the first turn's
\* intent, while the session now holds the second turn's, different intent.
ContextIsPreUpdateWitness ==
    \E w \in Workers :
        /\ Answered(w, "success")
        /\ Len(frame[w].generator_context) = 2
        /\ frame[w].generator_metadata # <<>>
        /\ frame[w].generator_metadata[1].user_intent # NULL
        /\ frame[w].generator_metadata[1].user_intent # frame[w].intent_result.intent
        /\ sessions[frame[w].session_id].user_intent = frame[w].intent_result.intent

\* The store calls of a turn, in the order of process_message
TurnOrder ==
    <<"get_conversation_context", "get_session_metadata", "add_message_user",
      "update_session_intent", "add_message_bot">>

\* C5: the store calls process_message has issued for a request are an initial
\* part of the fixed order, each at most once; a turn that succeeded has
\* issued all five; create_session is only ever the first call of a request.
StoreCallsInFixedOrder ==
    \A w \in Workers :
        /\ IsPrefix(TurnOps(w), TurnOrder)
        /\ Answered(w, "success") => TurnOps(w) = TurnOrder
        /\ \A i \in 2..Len(calls[w]) : calls[w][i].op # "create_session"

\* A request without session_id has succeeded: create_session and the five
\* calls of the turn, none of which failed.
StoreCallsWitness ==
    \E w \in Workers :
        /\ Answered(w, "success")
        /\ Len(calls[w]) = 6
        /\ calls[w][1].op = "create_session"
        /\ \A i \in 1..6 : calls[w][i].ok

\* C6: a turn in which add_message raised is answered with the error result
\* that holds the fixed text and the session id and nothing else; every error
\* result for a valid message is of that form, and none holds the text of
\* the exception.
ProcessingErrorIsGeneric ==
    \A w \in Workers :
        /\ (EngineCalled(w) /\ Raised(w, {"add_message_user", "add_message_bot"})) =>
               /\ Answered(w, "error")
               /\ response[w][1].http = 400
        /\ (Answered(w, "error") /\ validate_message(frame[w].user_message).is_valid) =>
               /\ DOMAIN Body(w) = {"status", "error", "session_id"}
               /\ Body(w).error = "Failed to process message"
               /\ Body(w).session_id = frame[w].session_id
        /\ Answered(w, "error") => Body(w).error \notin StoreErrors

\* A turn whose user message was stored and whose bot message was not
ProcessingErrorWitness ==
    \E w \in Workers :
        /\ Answered(w, "error")
        /\ Raised(w, {"add_message_bot"})
        /\ \E m \in messages : m.message_id = frame[w].user_message_id

\* C7: a context or metadata read that raised leaves the empty sequence or
\* None and the turn goes on: it is not answered before add_message has been
\* called, and unless an add_message raised it ends in success with all five
\* calls issued and, for a session of the store, both messages stored.
ReadFailureDoesNotAbort ==
    \A w \in Workers :
        /\ Raised(w, {"get_conversation_context"}) => frame[w].context_history = <<>>
        /\ Raised(w, {"get_session_metadata"}) => frame[w].session_metadata = <<>>
        /\ (/\ Raised(w, {"get_conversation_context", "get_session_metadata"})
            /\ pc[w] = "done") =>
               /\ Len(TurnOps(w)) >= 3
               /\ ~Raised(w, {"add_message_user", "add_message_bot"}) =>
                      /\ Answered(w, "success")
                      /\ TurnOps(w) = TurnOrder
                      /\ frame[w].session_id \in DOMAIN sessions =>
                             /\ \E m \in MessagesOf(frame[w].session_id) :
                                    /\ m.message_id = frame[w].user_message_id
                                    /\ m.sender = "user"
                                    /\ m.text = frame[w].sanitized_message
                             /\ \E m \in MessagesOf(frame[w].session_id) :
                                    /\ m.timestamp > frame[w].user_message_id
                                    /\ m.sender = "bot"
                                    /\ m.text = frame[w].bot_response

\* A second turn on a session, whose context read raised while the metadata
\* read next found the two messages of the first turn, has succeeded with an
\* empty context.
ReadFailureWitness ==
    \E w \in Workers :
        /\ Raised(w, {"get_conversation_context"})
        /\ Answered(w, "success")
        /\ Body(w).context_messages = 0
        /\ ~Body(w).is_followup
        /\ frame[w].session_metadata # <<>>
        /\ frame[w].session_metadata[1].interaction_count = 2
        /\ sessions[frame[w].session_id].interaction_count = 4

\* C8: a request in which create_session or add_message raised is answered
\* with an error that does not hold the text of the store's exception.
WriteFailureIsGeneric ==
    \A w \in Workers :
        (/\ pc[w] = "done"
         /\ Raised(w, {"create_session", "add_message_user", "add_message_bot"})) =>
            /\ response[w][1].http >= 400
            /\ Body(w).error \notin StoreErrors

\* C9: add_message for a session id that is not in the store does not return
\* as added, and a turn on such a session does not end in success.
UnknownSessionIsNotFound ==
    \A w \in Workers :
        (EngineCalled(w) /\ frame[w].session_id \notin DOMAIN sessions) =>
            /\ pc[w] \notin {"update_intent", "add_bot"}
            /\ ~Answered(w, "success")

\* C10: after a successful turn on a session of the store, no other worker
\* being on that session, the session's topic and user_intent are the intent
\* of the turn.  Stated for the turns none of whose store calls raised, which
\* is where the claim is least demanding.
TopicFollowsIntent ==
    \A w \in Workers :
        (/\ Answered(w, "success")
         /\ \A i \in 1..Len(calls[w]) : calls[w][i].ok
         /\ frame[w].session_id \in DOMAIN sessions
         /\ \A o \in Workers \ {w} : frame[o].session_id # frame[w].session_id) =>
            /\ sessions[frame[w].session_id].topic = Body(w).intent
            /\ sessions[frame[w].session_id].user_intent = Body(w).intent

\* A turn on the session has succeeded: its bot message is stored
HasSucceededTurn(session_id) == \E m \in MessagesOf(session_id) : m.sender = "bot"

\* The worker is inside process_message, past validation
InTurn(w) == pc[w] \in {"get_context", "get_metadata", "add_user", "update_intent", "add_bot"}

\* The worker's last store call returned without raising
LastCallReturned(w) == Len(calls'[w]) > 0 /\ calls'[w][Len(calls'[w])].ok

\* A context read that returns, in a session that has a succeeded turn, gives
\* at least two messages.
FollowupContextStep(w) ==
    (/\ pc[w] = "get_context" /\ pc'[w] = "get_metadata"
     /\ LastCallReturned(w)
     /\ HasSucceededTurn(frame[w].session_id)) =>
        Len(frame'[w].context_history) >= 2

\* The metadata read of the second of two sequential turns (the session holds
\* the two messages of the first, no other worker is in a turn on it, no store
\* call has raised) gives the intent classified in the first turn.
SecondTurnMetadataStep(w) ==
    (/\ pc[w] = "get_metadata" /\ pc'[w] = "add_user"
     /\ failures' = 0
     /\ \A o \in Workers \ {w} : ~(InTurn(o) /\ frame[o].session_id = frame[w].session_id)
     /\ Cardinality(MessagesOf(frame[w].session_id)) = 2
     /\ HasSucceededTurn(frame[w].session_id)) =>
        /\ frame'[w].session_metadata # <<>>
        /\ \E u \in MessagesOf(frame[w].session_id) :
               /\ u.sender = "user"
               /\ frame'[w].session_metadata[1].user_intent = u.intent

\* A reply generated from a context of at least two messages is no first-ask
\* reply, and the result of the turn says it is a follow-up.
TreatedAsFollowup(w) ==
    (/\ frame[w].bot_response # <<>>
     /\ Len(frame[w].context_history) >= 2) =>
        /\ frame[w].bot_response \notin
               Range(intent_responses[frame[w].intent_result.intent].first_ask)
        /\ Answered(w, "success") =>
               /\ Body(w).is_followup
               /\ Body(w).context_messages >= 2

\* C11: in the second of two sequential turns on a session, with a store that
\* does not fail, the metadata read holds the intent classified in the first
\* turn; every context read that returns after a turn of the session has
\* succeeded holds at least two messages; and a turn with such a context is
\* treated as a follow-up.
SecondTurnIsFollowup ==
    /\ [](\A w \in Workers : TreatedAsFollowup(w))
    /\ [][\A w \in Workers : FollowupContextStep(w) /\ SecondTurnMetadataStep(w)]_vars

\* "Where is my order?" and then "What about shipping cost?" on one session,
\* no store call having raised: the second turn has read the two messages of
\* the first and the intent order_status, and has ended as a follow-up.
SecondTurnWitness ==
    \E w \in Workers :
        /\ Answered(w, "success")
        /\ failures = 0
        /\ frame[w].sanitized_message = MsgShippingCost
        /\ Len(frame[w].context_history) = 2
        /\ frame[w].context_history[1].text = MsgWhereIsMyOrder
        /\ frame[w].context_history[2].sender = "bot"
        /\ frame[w].session_metadata # <<>>
        /\ frame[w].session_metadata[1].user_intent = "order_status"
        /\ Body(w).is_followup
        /\ frame[w].bot_response \in Range(intent_responses["product_info"].followup)

\* The text has no whitespace at either end, and every whitespace in it is a
\* single space between two other characters.
IsTrimmedAndCollapsed(text) ==
    \A i \in 1..Len(text) :
        text[i] \in Whitespace =>
            /\ text[i] = " "
            /\ 1 < i /\ i < Len(text)
            /\ text[i + 1] \notin Whitespace

\* The words of a text: its maximal runs of characters that are not whitespace
WordsOf(text) ==
    LET starts == {i \in 1..Len(text) :
                      /\ text[i] \notin Whitespace
                      /\ i = 1 \/ text[i - 1] \in Whitespace}
        endOf(i) == CHOOSE j \in i..Len(text) :
                        /\ \A k \in i..j : text[k] \notin Whitespace
                        /\ j = Len(text) \/ text[j + 1] \in Whitespace
        nth(k) == CHOOSE i \in starts : Cardinality({j \in starts : j < i}) = k - 1
    IN  [k \in 1..Cardinality(starts) |-> SubSeq(text, nth(k), endOf(nth(k)))]

\* C12: a turn sanitizes only a message that has passed validation; the text
\* it classifies, stores as the user message and gives to the response
\* generator is the message trimmed and with its whitespace runs collapsed
\* (the same words, one space apart); every stored user message is not empty,
\* has no whitespace at its ends and is at most 1000 characters long.
SanitizedTextEverywhere ==
    /\ \A w \in Workers :
           LET f == frame[w]
           IN  /\ (f.sanitized_message # <<>> \/ f.intent_result # NoIntentResult) =>
                      validate_message(f.user_message).is_valid
               /\ InTurn(w) \/ Answered(w, "success") =>
                      /\ IsTrimmedAndCollapsed(f.sanitized_message)
                      /\ WordsOf(f.sanitized_message) = WordsOf(f.user_message)
                      /\ f.intent_result.text = f.sanitized_message
               /\ f.bot_response # <<>> => f.generator_input = f.sanitized_message
               /\ \A m \in messages :
                      m.message_id = f.user_message_id =>
                          m.sender = "user" /\ m.text = f.sanitized_message
    /\ \A m \in messages :
           m.sender = "user" =>
               /\ Len(m.text) >= 1
               /\ Len(m.text) <= MAX_MESSAGE_LENGTH
               /\ IsTrimmedAndCollapsed(m.text)

\* The request " my  refund\tplease\n" has been answered and its user message
\* is stored as "my refund please".
SanitizedTextWitness ==
    \E w \in Workers :
        /\ Answered(w, "success")
        /\ frame[w].user_message = Strip(MsgRefundSpaced)
        /\ frame[w].user_message # frame[w].sanitized_message
        /\ \E m \in messages :
               /\ m.message_id = frame[w].user_message_id
               /\ m.text = <<"m","y"," ","r","e","f","u","n","d"," ","p","l","e","a","s","e">>
               /\ m.intent = "return_refund"

\* The text is empty or has whitespace only
WhitespaceOnly(text) == \A i \in 1..Len(text) : text[i] \in Whitespace

\* validate_message has returned to the caller
Validated == /\ pc[Caller] \in {"sanitize_message", "classify_intent", "returned"}
             /\ response[Caller] # <<>>

TooLongReason == [is_valid |-> FALSE, error_msg |-> "Message exceeds 1000 characters"]

EmptyReason == [is_valid |-> FALSE, error_msg |-> "Message cannot be empty"]

\* C13, as stated: validate_message gives the length reason for every text
\* longer than 1000 characters and the empty reason for every text that is
\* empty or whitespace only.
ValidateReasons ==
    Validated =>
        LET text == frame[Caller].user_message
        IN  /\ Len(text) > MAX_MESSAGE_LENGTH => response[Caller][1] = TooLongReason
            /\ WhitespaceOnly(text) => response[Caller][1] = EmptyReason

\* C13, amended: validate_message gives the empty reason for every text that
\* is empty or whitespace only, whatever its length, and the length reason
\* for every text longer than 1000 characters that is not whitespace only.
ValidateReasonsInOrder ==
    Validated =>
        LET text == frame[Caller].user_message
        IN  /\ WhitespaceOnly(text) => response[Caller][1] = EmptyReason
            /\ (Len(text) > MAX_MESSAGE_LENGTH /\ ~WhitespaceOnly(text)) =>
                   response[Caller][1] = TooLongReason

\* A text of 1001 characters of which one is not whitespace has been given
\* the length reason.
ValidateReasonsWitness ==
    /\ Validated
    /\ frame[Caller].user_message = Repeat(" ", MAX_MESSAGE_LENGTH) \o <<"a">>
    /\ response[Caller][1] = TooLongReason

\* classify_intent has returned to the caller
Classified == pc[Caller] = "returned"

\* The five intents, in their declared order
FixedIntents ==
    <<"order_status", "product_info", "return_refund", "troubleshooting", "shipping">>

\* The number of the intent's keywords that occur in the lower-cased text
KeywordCount(text, intent) ==
    LET keywords == (CHOOSE e \in Range(intent_keywords) : e.intent = intent).keywords
    IN  Cardinality({k \in 1..Len(keywords) : Contains(Lower(text), keywords[k])})

\* The highest keyword count of the text among the five intents
HighestCount(text) ==
    CHOOSE c \in {KeywordCount(text, FixedIntents[i]) : i \in 1..Len(FixedIntents)} :
        \A i \in 1..Len(FixedIntents) : KeywordCount(text, FixedIntents[i]) <= c

\* C14: when some keyword occurs in the text, the classifier returns the
\* first intent, in declared order, among those with the highest keyword count.
HighestCountWins ==
    Classified =>
        LET text == frame[Caller].user_message
            best == HighestCount(text)
            first == CHOOSE i \in 1..Len(FixedIntents) :
                         /\ KeywordCount(text, FixedIntents[i]) = best
                         /\ \A j \in 1..(i - 1) : KeywordCount(text, FixedIntents[j]) < best
        IN  best > 0 => frame[Caller].intent_result.intent = FixedIntents[first]

\* C15: the confidence of a keyword match is, in hundredths,
\* min(85 + 5 * n, 95) for n the number of keywords of the returned intent
\* that occur in the text.
ConfidenceGrowsWithMatches ==
    Classified =>
        LET result == frame[Caller].intent_result
            matched == KeywordCount(frame[Caller].user_message, result.intent)
            scored == 85 + 5 * matched
        IN  result.source = "keyword_match" =>
                result.confidence = IF scored < 95 THEN scored ELSE 95

\* C16: the classifier returns general_inquiry, 0.6 and fallback when no
\* keyword of the five intents occurs in the text, and otherwise keyword_match
\* with one of the five intents.
FallbackExactlyWithoutKeyword ==
    Classified =>
        LET result == frame[Caller].intent_result
        IN  IF HighestCount(frame[Caller].user_message) = 0
            THEN /\ result.intent = "general_inquiry"
                 /\ result.confidence = 60
                 /\ result.source = "fallback"
            ELSE /\ result.source = "keyword_match"
                 /\ result.intent \in Range(FixedIntents)

\* "xyz abc qqq" has been classified general_inquiry, 0.6, fallback.
FallbackWitness ==
    /\ Classified
    /\ frame[Caller].user_message = MsgNoKeyword
    /\ frame[Caller].intent_result.intent = "general_inquiry"
    /\ frame[Caller].intent_result.confidence = 60
    /\ frame[Caller].intent_result.source = "fallback"

\* Every store call of the worker's request has returned
NoCallRaised(w) == \A i \in 1..Len(calls[w]) : calls[w][i].ok

\* C17: a turn that has succeeded on a message with an order number (a run
\* of at least four digits) has classified it with an order_number entity of
\* that value, has stored the entity with the user message and returns it in
\* the entities of its result.  Stated for the turns on a session of the store
\* none of whose store calls raised.
OrderNumberEntity ==
    \A w \in Workers :
        (/\ Answered(w, "success")
         /\ NoCallRaised(w)
         /\ frame[w].session_id \in DOMAIN sessions
         /\ SearchOrderNumber(frame[w].sanitized_message) # <<>>) =>
            LET number == SearchOrderNumber(frame[w].sanitized_message)
                found == frame[w].intent_result.entities
            IN  /\ \E i \in 1..Len(found) :
                       found[i].entity = "order_number" /\ found[i].value = number
                /\ "order_number" \in DOMAIN Body(w).entities
                /\ Body(w).entities["order_number"] = number
                /\ \E m \in messages :
                       /\ m.message_id = frame[w].user_message_id
                       /\ m.entities # <<>>
                       /\ "order_number" \in DOMAIN m.entities[1]
                       /\ m.entities[1]["order_number"] = number

\* The "{order}" placeholder of the templates
OrderPlaceholder == <<"{","o","r","d","e","r","}">>

\* The replies of a bucket of templates for an order number
OrderReplies(bucket, number) == {Replace(r, OrderPlaceholder, number) : r \in Range(bucket)}

\* C18: a turn that has succeeded on a message with an order number, for an
\* intent whose templates have an order-specific bucket, has replied from
\* that bucket with the number in place of {order}, follow-up or not; and the
\* first message "I want to return order #9981" of a session is classified
\* return_refund and answered from the order-specific bucket of return_refund
\* with 9981.  Stated for the turns on a session of the store none of whose
\* store calls raised.
OrderBucketWheneverNumbered ==
    \A w \in Workers :
        (/\ Answered(w, "success")
         /\ NoCallRaised(w)
         /\ frame[w].session_id \in DOMAIN sessions
         /\ SearchOrderNumber(frame[w].sanitized_message) # <<>>) =>
            LET number == SearchOrderNumber(frame[w].sanitized_message)
                pool == intent_responses[frame[w].intent_result.intent]
                refund == intent_responses["return_refund"]
            IN  /\ "with_order_number" \in DOMAIN pool =>
                       frame[w].bot_response \in OrderReplies(pool["with_order_number"], number)
                /\ (frame[w].sanitized_message = MsgReturnOrder
                       /\ frame[w].context_history = <<>>) =>
                       /\ Body(w).intent = "return_refund"
                       /\ "with_order_number" \in DOMAIN refund
                       /\ frame[w].bot_response \in
                              OrderReplies(refund["with_order_number"], <<"9","9","8","1">>)

\* The related groups of intents of the topic-shift rule
RelatedGroups ==
    {{"order_status", "shipping", "return_refund"}, {"product_info", "return_refund"}}

\* The current intent is a topic shift from the previous one: there is a
\* previous intent, it is another intent and no related group has both.
TopicShift(previous, current) ==
    /\ previous # NULL
    /\ previous # current
    /\ ~\E g \in RelatedGroups : previous \in g /\ current \in g

\* The reply is a template of the intent (with the order number, if the
\* conversation has one, in place of {order}) with some text in front of it.
HasPrefix(reply, intent, number) ==
    LET pool == intent_responses[intent]
        plain == UNION {IF number = <<>> THEN Range(pool[b]) ELSE OrderReplies(pool[b], number) :
                           b \in DOMAIN pool}
    IN  \E p \in plain :
            /\ Len(reply) > Len(p)
            /\ SubSeq(reply, Len(reply) - Len(p) + 1, Len(reply)) = p

\* C19: the reply of a turn has a transition prefix in front of its template
\* exactly when the turn's intent is a topic shift from the user_intent of
\* the metadata the turn fetched; without metadata there is no shift.  Stated
\* for the turns on a session of the store none of whose store calls raised,
\* that read the session between two turns (as many messages in the context
\* as the metadata counts).
TopicShiftPrefixed ==
    \A w \in Workers :
        (/\ Answered(w, "success")
         /\ NoCallRaised(w)
         /\ frame[w].session_id \in DOMAIN sessions
         /\ frame[w].session_metadata # <<>>
         /\ frame[w].session_metadata[1].interaction_count = Len(frame[w].context_history)
         /\ Len(frame[w].context_history) % 2 = 0) =>
            LET f == frame[w]
                texts == [i \in 1..Len(f.context_history) |-> f.context_history[i].text]
                shift == /\ f.session_metadata # <<>>
                         /\ TopicShift(f.session_metadata[1].user_intent, f.intent_result.intent)
            IN  shift <=> HasPrefix(f.bot_response, f.intent_result.intent,
                                    extract_order_number(f.sanitized_message, texts))

\* The intents a turn can have and the metadata it can fetch, as far as
\* follow-up detection reads them
AllIntents == Range(FixedIntents) \cup {"general_inquiry"}

MetadataCases == {<<>>} \cup {<<[user_intent |-> p]>> : p \in AllIntents \cup {NULL}}

\* A context read that returns, in a session without messages, gives the
\* empty context.
FirstTurnContextStep(w) ==
    (/\ pc[w] = "get_context" /\ pc'[w] = "get_metadata"
     /\ MessagesOf(frame[w].session_id) = {}) =>
        frame'[w].context_history = <<>>

\* A reply generated from an empty context is a first-ask reply of the
\* turn's intent, whatever the metadata, and the result says no follow-up.
EmptyContextIsFirstAsk(w) ==
    (frame[w].bot_response # <<>> /\ frame[w].generator_context = <<>>) =>
        /\ frame[w].bot_response \in
               Range(intent_responses[frame[w].intent_result.intent].first_ask)
        /\ Answered(w, "success") =>
               /\ ~Body(w).is_followup
               /\ Body(w).context_messages = 0

\* C20: follow-up detection is false on an empty context for every intent
\* and every metadata; the first turn of a session reads an empty context,
\* and a turn with an empty context replies from the first-ask bucket of its
\* intent.
NoFollowupWithoutContext ==
    /\ [](/\ \A intent \in AllIntents, metadata \in MetadataCases :
                 ~is_followup_question(<<>>, intent, metadata)
          /\ \A w \in Workers : EmptyContextIsFirstAsk(w))
    /\ [][\A w \in Workers : FirstTurnContextStep(w)]_vars

\* A turn has succeeded whose context was empty while the metadata it
\* fetched held its own intent (the context read raised, or was made before
\* a concurrent turn on the session stored its messages): its reply is a
\* first-ask reply.
NoFollowupWitness ==
    \E w \in Workers :
        /\ Answered(w, "success")
        /\ frame[w].generator_context = <<>>
        /\ frame[w].generator_metadata # <<>>
        /\ frame[w].generator_metadata[1].user_intent = frame[w].intent_result.intent
        /\ frame[w].bot_response \in
               Range(intent_responses[frame[w].intent_result.intent].first_ask)

\* sanitize_message has returned to the caller
Sanitized == pc[Caller] \in {"classify_intent", "returned"}

\* C21: sanitize_message applied to a text it has returned gives that text
\* again.
SanitizeIsIdempotent ==
    Sanitized =>
        sanitize_message(frame[Caller].sanitized_message) = frame[Caller].sanitized_message

\* 'a \t\n b ' has been sanitized to 'a b'.
SanitizeWitness ==
    /\ Sanitized
    /\ frame[Caller].user_message = MsgWideGap
    /\ frame[Caller].sanitized_message = <<"a"," ","b">>

\* get_conversation_context has returned to the caller, and the store is as
\* it was read
Fetched == pc[Caller] = "fetched"

\* C22: get_conversation_context(session, n) returns the min(n, number of
\* messages) most recent messages of the session, each with its stored
\* fields, the oldest first; it returns the empty sequence for a session
\* without messages, for a session that does not exist and when the read
\* raised; with n = 6, the window of a turn, it returns at most 6 messages.
ContextIsRecentWindow ==
    Fetched =>
        LET call == calls[Caller][1]
            result == frame[Caller].context_history
            mine == MessagesOf(call.session_id)
            size == IF call.num_messages < Cardinality(mine)
                    THEN call.num_messages ELSE Cardinality(mine)
            newer(m) == Cardinality({o \in mine : o.timestamp > m.timestamp})
        IN  /\ ~call.ok => result = <<>>
            /\ (mine = {} \/ call.session_id \notin DOMAIN sessions) => result = <<>>
            /\ call.ok =>
                   /\ Len(result) = size
                   /\ \A i \in 1..Len(result) :
                          \E m \in mine :
                              /\ newer(m) = Len(result) - i
                              /\ result[i].message_id = m.message_id
                              /\ result[i].sender = m.sender
                              /\ result[i].text = m.text
                              /\ result[i].intent = m.intent
            /\ call.num_messages = CONTEXT_WINDOW_SIZE => Len(result) <= 6

\* A session with seven messages has been read with limit 6: the read holds
\* six messages, from the second message of the session to its last.
ContextWindowWitness ==
    /\ Fetched
    /\ calls[Caller][1].ok
    /\ calls[Caller][1].num_messages = CONTEXT_WINDOW_SIZE
    /\ Cardinality(MessagesOf(frame[Caller].session_id)) = 7
    /\ Len(frame[Caller].context_history) = 6
    /\ frame[Caller].context_history[1].sender = "bot"
    /\ frame[Caller].context_history[6].sender = "user"

\* The messages of the session in the order of their insertion
SessionLog(session_id) ==
    LET mine == MessagesOf(session_id)
    IN  [k \in 1..Cardinality(mine) |->
            CHOOSE m \in mine : Cardinality({o \in mine : o.timestamp < m.timestamp}) = k - 1]

\* The session's messages are user, bot, user, bot, ... from the first on, and
\* every bot message has the label response_to_<intent> of the user message
\* before it.
Alternates(session_id) ==
    LET log == SessionLog(session_id)
    IN  \A k \in 1..Len(log) :
            IF k % 2 = 1 THEN log[k].sender = "user"
            ELSE /\ log[k].sender = "bot"
                 /\ log[k - 1].intent \in DOMAIN response_to
                 /\ log[k].intent = response_to[log[k - 1].intent]

\* At most one worker is in a turn on the session
OneAtATime(session_id) ==
    Cardinality({w \in Workers : InTurn(w) /\ frame[w].session_id = session_id}) <= 1

\* C23: as long as the turns of a session run one at a time and no store
\* call has failed, the messages of the session alternate user, bot from a
\* user message on and every bot message has the label of the user message
\* before it.  Stated as the step that keeps it: a step between two states
\* in which the turns of the session are one at a time, no store call having
\* failed, leaves the messages alternating if they were.
SequentialTurnsAlternate ==
    [][\A session_id \in DOMAIN sessions :
          (/\ failures' = 0
           /\ OneAtATime(session_id) /\ OneAtATime(session_id)'
           /\ Alternates(session_id)) => Alternates(session_id)']_vars

\* Two turns of different intents have run on a session one after the other,
\* no store call having failed: its four messages are user, bot, user, bot
\* with the labels of the two intents.
AlternationWitness ==
    \E s \in DOMAIN sessions :
        /\ failures = 0
        /\ \A w \in Workers : ~InTurn(w)
        /\ Len(SessionLog(s)) = 4
        /\ Alternates(s)
        /\ SessionLog(s)[2].intent = "response_to_order_status"
        /\ SessionLog(s)[4].intent = "response_to_product_info"

\* _is_followup_question has returned to the caller
FollowupDecided == pc[Caller] \in {"extract_order_number", "generate_response", "returned"}

\* C24: with a context that is not empty the turn is a follow-up if the
\* metadata has a previous intent that is the current intent or is in one of
\* the two related groups together with it; otherwise it is a follow-up
\* exactly when the context has at least two messages.
FollowupByGroups ==
    (FollowupDecided /\ Len(frame[Caller].context_history) > 0) =>
        LET current == intent_or_default(frame[Caller].intent_result.intent)
            metadata == frame[Caller].session_metadata
            together == /\ metadata # <<>>
                        /\ metadata[1].user_intent # NULL
                        /\ \/ metadata[1].user_intent = current
                           \/ \E g \in RelatedGroups :
                                  metadata[1].user_intent \in g /\ current \in g
        IN  response[Caller][1].is_followup =
                (together \/ Len(frame[Caller].context_history) >= 2)

\* generate_response has returned to the caller
Replied == pc[Caller] = "returned" /\ frame[Caller].bot_response # NULL

\* The template set of an intent: its own, or that of general_inquiry
TemplateSet(intent) ==
    IF intent \in DOMAIN intent_responses THEN intent_responses[intent]
    ELSE intent_responses["general_inquiry"]

\* The order-specific bucket applies: a follow-up with an order number, for
\* a template set that has the bucket
OrderSpecific(set) ==
    /\ response[Caller][1].is_followup
    /\ response[Caller][1].order_number # <<>>
    /\ "with_order_number" \in DOMAIN set

\* C25: when the order-specific bucket does not apply, the reply is in the
\* followup bucket of the intent's template set for a follow-up (in first_ask
\* when the set has no followup bucket) and in first_ask otherwise; an intent
\* without a template set uses the set of general_inquiry; so every reply is
\* in a bucket of the set, with the order number in place of {order}.
ReplyIsInBucket ==
    Replied =>
        LET set == TemplateSet(frame[Caller].intent_result.intent)
            reply == frame[Caller].bot_response
        IN  /\ ~OrderSpecific(set) =>
                   IF response[Caller][1].is_followup
                   THEN IF "followup" \in DOMAIN set
                        THEN reply \in Range(set["followup"])
                        ELSE reply \in Range(set["first_ask"])
                   ELSE reply \in Range(set["first_ask"])
            /\ \/ \E bucket \in DOMAIN set : reply \in Range(set[bucket])
               \/ /\ OrderSpecific(set)
                  /\ reply \in OrderReplies(set["with_order_number"],
                                             response[Caller][1].order_number)

\* A follow-up for an intent without templates, answered from the followup
\* bucket of general_inquiry
BucketWitness ==
    /\ Replied
    /\ frame[Caller].intent_result.intent = "feedback"
    /\ response[Caller][1].is_followup
    /\ frame[Caller].bot_response \in Range(intent_responses["general_inquiry"]["followup"])
    /\ frame[Caller].bot_response \notin Range(intent_responses["general_inquiry"]["first_ask"])

\* process_message runs for the worker's request, on a valid message for
\* this session of the store, and none of its store calls has raised
TurnOn(w, session_id) ==
    /\ EngineCalled(w)
    /\ validate_message(frame[w].user_message).is_valid
    /\ frame[w].session_id = session_id
    /\ session_id \in DOMAIN sessions
    /\ NoCallRaised(w)

\* Both workers have answered turns on the session
BothTurnsDone(session_id) ==
    \A w \in Workers : TurnOn(w, session_id) /\ pc[w] = "done"

\* The messages of the session stored since the first request
NewMessages(session_id) == {m \in MessagesOf(session_id) : m.timestamp >= SeedClock}

\* The two turns have succeeded and left their four messages, each user
\* message before the bot message of its turn
BothTurnsStored(session_id) ==
    /\ \A w \in Workers : Answered(w, "success") /\ response[w][1].http = 200
    /\ Cardinality(NewMessages(session_id)) = 4
    /\ Cardinality({m \in NewMessages(session_id) : m.sender = "user"}) = 2
    /\ Cardinality({m \in NewMessages(session_id) : m.sender = "bot"}) = 2
    /\ sessions[session_id].interaction_count =
           Cardinality(MessagesOf(session_id) \ NewMessages(session_id)) + 4
    /\ sessions[session_id].user_intent \in
           {frame[w].intent_result.intent : w \in Workers}
    /\ \A w \in Workers :
           \E u, b \in NewMessages(session_id) :
              /\ u.message_id = frame[w].user_message_id
              /\ u.sender = "user"
              /\ u.text = frame[w].sanitized_message
              /\ b.sender = "bot"
              /\ b.text = frame[w].bot_response
              /\ b.intent = response_to[frame[w].intent_result.intent]
              /\ u.timestamp < b.timestamp

\* The worker's update_session_intent returns in this step
UpdateReturns(w) ==
    /\ pc[w] = "update_intent"
    /\ pc'[w] = "add_bot"
    /\ LastCallReturned(w)

\* The user_intent of a session is the intent of the latest
\* update_session_intent on it: such a call sets it, and nothing else
\* changes it
IntentOfLastUpdate ==
    \A session_id \in DOMAIN sessions :
        /\ \A w \in Workers :
               (UpdateReturns(w) /\ frame[w].session_id = session_id) =>
                   sessions'[session_id].user_intent = frame[w].intent_result.intent
        /\ sessions'[session_id].user_intent # sessions[session_id].user_intent =>
               \E w \in Workers : UpdateReturns(w) /\ frame[w].session_id = session_id

\* How far a request has come
Position ==
    [idle |-> 0, create_answer |-> 1, create_session |-> 1, get_context |-> 2, get_metadata |-> 3,
     add_user |-> 4, update_intent |-> 5, add_bot |-> 6, done |-> 7]

\* A turn waits for nothing: its next store call can be made whatever the
\* other turn is doing, and after update_session_intent there is a reply to
\* draw
NeverBlocked ==
    \A w \in Workers :
        /\ pc[w] = "get_context" => ENABLED GetContext(w)
        /\ pc[w] = "get_metadata" => ENABLED GetMetadata(w)
        /\ pc[w] = "add_user" => ENABLED AddUserMessage(w)
        /\ pc[w] = "update_intent" =>
               generate_response(frame[w].sanitized_message,
                                 [i \in 1..Len(frame[w].context_history) |->
                                     frame[w].context_history[i].text],
                                 frame[w].intent_result.intent,
                                 frame[w].session_metadata) # {}
        /\ pc[w] = "add_bot" => ENABLED AddBotMessage(w)

\* Every store call of a turn takes the turn further, so a turn ends after
\* at most five of them
Advances ==
    \A w \in Workers :
        (InTurn(w) /\ calls'[w] # calls[w]) => Position[pc'[w]] > Position[pc[w]]

\* C26: two turns on one session of a store that does not fail both end,
\* whatever the interleaving of their store calls, and then both have
\* succeeded, the session has four new messages and an interaction_count
\* four higher than before, each turn's user message is earlier than its
\* bot message, and user_intent is the intent of the turn whose
\* update_session_intent ran last.
ConcurrentTurnsComplete ==
    /\ [](\A session_id \in DOMAIN sessions :
             BothTurnsDone(session_id) => BothTurnsStored(session_id))
    /\ [][IntentOfLastUpdate]_vars
    /\ []NeverBlocked
    /\ [][Advances]_vars

\* Two turns that interleaved: both user messages are earlier than both bot
\* messages, and the session's user_intent is the intent of the turn that
\* stored its bot message first
ConcurrentTurnsWitness ==
    \E session_id \in DOMAIN sessions :
        /\ BothTurnsDone(session_id)
        /\ MessagesOf(session_id) # NewMessages(session_id)
        /\ \A u, b \in NewMessages(session_id) :
               (u.sender = "user" /\ b.sender = "bot") => u.timestamp < b.timestamp
        /\ frame[1].intent_result.intent # frame[2].intent_result.intent
        /\ \E b \in NewMessages(session_id) :
               /\ b.sender = "bot"
               /\ b.intent = response_to[sessions[session_id].user_intent]
               /\ \A o \in NewMessages(session_id) :
                      o.timestamp <= b.timestamp => (o.sender = "user" \/ o = b)

\* No session has more bot messages than user messages
BotsAtMostUsers ==
    \A session_id \in DOMAIN sessions \cup {UnknownSession} :
        Cardinality({m \in MessagesOf(session_id) : m.sender = "bot"}) <=
            Cardinality({m \in MessagesOf(session_id) : m.sender = "user"})

\* A step that stores a bot message is the last step of a turn that has
\* stored its user message on the same session, and that turn is answered
\* with success
BotAfterUser ==
    \A b \in messages' \ messages :
        b.sender = "bot" =>
            \E w \in Workers :
                /\ pc[w] = "add_bot"
                /\ Answered(w, "success")'
                /\ b.session = frame[w].session_id
                /\ b.text = frame[w].bot_response
                /\ \E u \in messages :
                       /\ u.message_id = frame[w].user_message_id
                       /\ u.sender = "user"
                       /\ u.session = b.session
                       /\ u.timestamp < b.timestamp

\* A step that answers a valid message with an error stores nothing
ErrorStoresNothing ==
    \A w \in Workers :
        (InTurn(w) /\ Answered(w, "error")') => messages' = messages

\* C27: a bot message is stored only by a turn that has stored its user
\* message and that then succeeds, a turn that ends in an error stores no
\* bot message, and in every reachable state no session has more bot
\* messages than user messages.
BotNeverWithoutUser ==
    /\ []BotsAtMostUsers
    /\ [][BotAfterUser]_vars
    /\ [][ErrorStoresNothing]_vars

\* Two turns on one session: one succeeded, the other stored its user
\* message and updated the session's intent, and its bot message failed
BotCountWitness ==
    \E w \in Workers, o \in Workers, session_id \in DOMAIN sessions :
        /\ frame[w].session_id = session_id
        /\ frame[o].session_id = session_id
        /\ Answered(w, "error")
        /\ Raised(w, {"add_message_bot"})
        /\ Answered(o, "success")
        /\ sessions[session_id].user_intent = frame[w].intent_result.intent
        /\ frame[o].intent_result.intent # frame[w].intent_result.intent
        /\ Cardinality({m \in MessagesOf(session_id) : m.sender = "bot"}) = 1
        /\ Cardinality({m \in MessagesOf(session_id) : m.sender = "user"}) = 2

\* The runs of digits of a text that cannot be extended, as <<first, last>>
DigitRuns(text) ==
    {r \in (1..Len(text)) \X (1..Len(text)) :
        /\ r[1] <= r[2]
        /\ \A k \in r[1]..r[2] : text[k] \in Digits
        /\ (r[1] = 1 \/ text[r[1] - 1] \notin Digits)
        /\ (r[2] = Len(text) \/ text[r[2] + 1] \notin Digits)}

\* The first run of at least four digits of a text; <<>> without one
FirstOrderRun(text) ==
    LET long == {r \in DigitRuns(text) : r[2] - r[1] + 1 >= 4}
    IN  IF long = {} THEN <<>>
        ELSE LET r == CHOOSE x \in long : \A y \in long : x[1] <= y[1]
             IN  SubSeq(text, r[1], r[2])

\* The order number of a turn: that of the current message, else that of
\* the oldest context message that has one
ExpectedOrderNumber(user_input, context_history) ==
    IF FirstOrderRun(user_input) # <<>> THEN FirstOrderRun(user_input)
    ELSE IF \A i \in 1..Len(context_history) : FirstOrderRun(context_history[i]) = <<>>
    THEN <<>>
    ELSE FirstOrderRun(context_history[
             CHOOSE i \in 1..Len(context_history) :
                /\ FirstOrderRun(context_history[i]) # <<>>
                /\ \A j \in 1..(i - 1) : FirstOrderRun(context_history[j]) = <<>>])

\* The reply has the text of an order-specific template before its {order}
FromOrderTemplate(reply, set) ==
    /\ "with_order_number" \in DOMAIN set
    /\ \E t \in Range(set["with_order_number"]) :
           \E i \in 2..(Len(t) - Len(OrderPlaceholder) + 1) :
              /\ SubSeq(t, i, i + Len(OrderPlaceholder) - 1) = OrderPlaceholder
              /\ Len(reply) >= i
              /\ SubSeq(reply, 1, i - 1) = SubSeq(t, 1, i - 1)

\* C28: the order number of a reply is the first run of at least four
\* digits of the current message, else the first such run of the oldest
\* context message that has one; a reply made from an order-specific
\* template holds that number in place of {order}, so there is one; and no
\* reply holds the text {order}.
OrderNumberIsFirstRun ==
    Replied =>
        LET set == TemplateSet(frame[Caller].intent_result.intent)
            reply == frame[Caller].bot_response
            number == ExpectedOrderNumber(frame[Caller].generator_input,
                                          frame[Caller].context_history)
        IN  /\ response[Caller][1].order_number = number
            /\ FromOrderTemplate(reply, set) =>
                   /\ number # <<>>
                   /\ reply \in OrderReplies(set["with_order_number"], number)
            /\ ~Contains(reply, OrderPlaceholder)

\* A reply with an order number from the context: the current message has
\* three digits only, the oldest context message too, and the third context
\* message is the first with an order number
OrderNumberWitness ==
    /\ Replied
    /\ frame[Caller].generator_input = MsgShortNumber
    /\ frame[Caller].context_history = <<MsgShortNumber, BotReply, MsgNumberOnly, MsgTwoNumbers>>
    /\ frame[Caller].bot_response \in
           OrderReplies(intent_responses["order_status"]["with_order_number"],
                        <<"5","5","5","5","5","5">>)

====
